---- MODULE Spec2Model ----
(***************************************************************************)
(* Family child auto-assignment of the giby-gubaye backend.                *)
(*                                                                         *)
(* The model covers the Family collection, the request handlers of         *)
(* controllers/familyController.ts that write to it (createFamily,         *)
(* updateFamily, addChildrenToFamily, executeAutoAssignChildren) and the   *)
(* read-only preview autoAssignChildren.                                   *)
(* deleteFamily and deleteStudent (controllers/studentController.ts) are   *)
(* modelled for the commit of a preview whose documents vanish.            *)
(* removeChildFromFamily and updateFamilyStatus are outside the model.     *)
(*                                                                         *)
(* The last part models the status routes of routes/transactions.ts        *)
(* (create, approve, reject, complete, confirm) with the Wallet document   *)
(* that complete updates.  The wallet routes of the same file (update,     *)
(* deposit, withdraw) and the names and dates a route stamps on a          *)
(* transaction are outside the model; the user of a new transaction        *)
(* exists.                                                                 *)
(*                                                                         *)
(* Conventions                                                             *)
(*  - a student reference is the student's index in the Student            *)
(*    collection; 0 stands for an absent optional reference;               *)
(*  - a family's _id is its index in the Family collection (insertion      *)
(*    order, which is also the order Family.find returns);                 *)
(*  - array indices are 1-based here and 0-based in the source;            *)
(*  - an absent string field is "";                                        *)
(*  - scores are kept as integers, in hundredths (100 in the source is     *)
(*    10000 here, the tie-break 0.1 per year is 10, 0.05 is 5);            *)
(*  - dates of birth are kept as the year, 0 when absent; the addedAt      *)
(*    timestamp of a child entry is not kept.                              *)
(***************************************************************************)
EXTENDS Integers, Sequences, FiniteSets, TLC

VARIABLES
    students,   \* the Student collection
    families,   \* the Family collection, committed state
    preview,    \* the last response of autoAssignChildren
    response,   \* the last response of executeAutoAssignChildren
    req,        \* per request slot: the handler in progress and its locals
    wallets,    \* the Wallet collection (the routes read its first document)
    transactions \* the Transaction collection

vars == <<students, families, preview, response, req, wallets, transactions>>

----------------------------------------------------------------------------
(* Bounds of the model *)

\* concurrent request slots
MaxReqs == 2
\* Family documents the collection may hold
MaxFamilies == 2
\* largest maxChildrenPerFamily a preview request asks for
MaxCap == 2
\* children a slot may hold before addChildrenToFamily requests stop coming
MaxKids == 1

----------------------------------------------------------------------------
(* Student collection *)

\* new Date().getFullYear()
CurrentYear == 2026

Student(gender, batch, region, zone, wereda, kebele, born, isActive) ==
    [gender |-> gender, batch |-> batch, region |-> region, zone |-> zone,
     wereda |-> wereda, kebele |-> kebele, dateOfBirth |-> born,
     isActive |-> isActive]

\* The students the collection holds.  1-4 serve as parents, 5-10 are the
\* children candidates, 11-15 hold the offices.
SeedStudents == <<
    Student("male",   "B1", "R1", "Z1", "W1", "K1", 1990, TRUE),
    Student("female", "B1", "R1", "Z1", "W1", "K2", 0,    TRUE),
    Student("male",   "B2", "R2", "Z3", "W3", "K3", 1985, TRUE),
    Student("female", "B2", "R1", "Z1", "W2", "K4", 1988, TRUE),
    Student("male",   "B1", "R1", "Z1", "W1", "K1", 2006, TRUE),
    Student("female", "B1", "R1", "Z2", "W4", "K5", 1981, TRUE),
    Student("male",   "B1", "R3", "",   "",   "",   0,    TRUE),
    Student("female", "B1", "R1", "Z1", "W1", "K2", 1981, TRUE),
    Student("male",   "B2", "R1", "Z1", "W2", "K4", 2001, TRUE),
    Student("female", "B1", "R1", "Z1", "W1", "K1", 2005, FALSE),
    Student("male",   "B0", "R1", "Z1", "W1", "K1", 1970, TRUE),
    Student("female", "B0", "R1", "Z1", "W1", "K1", 1971, TRUE),
    Student("male",   "B0", "R2", "Z3", "W3", "K3", 1972, TRUE),
    Student("male",   "B0", "R2", "Z3", "W3", "K3", 0,    TRUE),
    Student("female", "B0", "R2", "Z3", "W3", "K3", 0,    TRUE) >>

StudentIds == DOMAIN students

\* Student.find({ _id: { $in: ids } }): the distinct students found
FindStudents(ids) == ids \cap StudentIds

----------------------------------------------------------------------------
(* Family documents *)

Child(student, relationship, birthOrder) ==
    [student |-> student, relationship |-> relationship, birthOrder |-> birthOrder]

FamilyMember(father, mother, children) ==
    [father |-> father, mother |-> mother, children |-> children]

GrandParent(grandFather, grandMother, fams) ==
    [grandFather |-> grandFather, grandMother |-> grandMother, families |-> fams]

\* the sequence of the elements of a sequence of sequences, in order
RECURSIVE Flatten(_)
Flatten(ss) ==
    IF ss = <<>> THEN <<>> ELSE Head(ss) \o Flatten(Tail(ss))

Range(s) == {s[i] : i \in DOMAIN s}

\* every student identifier of a family document, in the order the
\* controller walks it: leaders, then per grand parent the grand father, the
\* grand mother and, per pair, father, mother, children
MemberList(fam) ==
    <<fam.familyLeader, fam.familyCoLeader, fam.familySecretary>> \o
    Flatten([g \in DOMAIN fam.grandParents |->
        LET gp == fam.grandParents[g] IN
        (IF gp.grandFather # 0 THEN <<gp.grandFather>> ELSE <<>>) \o
        (IF gp.grandMother # 0 THEN <<gp.grandMother>> ELSE <<>>) \o
        Flatten([i \in DOMAIN gp.families |->
            <<gp.families[i].father, gp.families[i].mother>> \o
            [c \in DOMAIN gp.families[i].children |->
                gp.families[i].children[c].student]])])

NoRepeat(s) == \A i, j \in DOMAIN s : s[i] = s[j] => i = j

----------------------------------------------------------------------------
(* Validation helpers of createFamily and updateFamily *)

\* checkForDuplicateStudents: the three leaders differ and the walk over
\* grand parents, parents and children meets no identifier twice
checkForDuplicateStudents(familyData) ==
    /\ Cardinality({familyData.familyLeader, familyData.familyCoLeader,
                    familyData.familySecretary}) = 3
    /\ NoRepeat(MemberList(familyData))

\* validateGenderForFamilyMembers: a father found in the collection is male,
\* a mother found is female
validateGenderForFamilyMembers(familyData) ==
    \A g \in DOMAIN familyData.grandParents :
        \A i \in DOMAIN familyData.grandParents[g].families :
            LET m == familyData.grandParents[g].families[i] IN
            /\ m.father \in StudentIds => students[m.father].gender = "male"
            /\ m.mother \in StudentIds => students[m.mother].gender = "female"

\* the child entries of a document, in order
ChildList(fam) ==
    Flatten([g \in DOMAIN fam.grandParents |->
        Flatten([i \in DOMAIN fam.grandParents[g].families |->
            fam.grandParents[g].families[i].children])])

\* validateChildrenBatch: unless other batches are allowed, every child
\* found in the collection is of the family's batch
validateChildrenBatch(familyData, allowOtherBatches) ==
    \/ allowOtherBatches
    \/ \A c \in DOMAIN ChildList(familyData) :
          LET id == ChildList(familyData)[c].student IN
          id \in StudentIds => students[id].batch = familyData.batch

\* "Check if all student IDs exist": as many students found as identifiers
AllStudentsExist(familyData) ==
    Cardinality(FindStudents(Range(MemberList(familyData))))
        = Len(MemberList(familyData))

----------------------------------------------------------------------------
(* autoAssignChildren: the preview *)

Levels == <<"kebele", "wereda", "zone", "region">>

IndexOfLevel(level) == CHOOSE k \in DOMAIN Levels : Levels[k] = level

Max(a, b) == IF a >= b THEN a ELSE b

Abs(a) == IF a >= 0 THEN a ELSE 0 - a

\* Family.find({'grandParents.families': {$exists: true, $not: {$size: 0}},
\*              status: 'current'}): some grand parent has the families field
\* and no grand parent has an empty families array
EligibleQuery(fam) ==
    /\ fam.status = "current"
    /\ Len(fam.grandParents) > 0
    /\ \A g \in DOMAIN fam.grandParents : Len(fam.grandParents[g].families) # 0

\* studentsInThisFamilyDoc.  The query is lean and populates the grand
\* parents, so gp.grandFather.toString() is the text of a plain object and
\* adds no student identifier; parents and children are added by _id when
\* the populate resolved them.
studentsInThisFamilyDoc(fam) ==
    {fam.familyLeader, fam.familyCoLeader, fam.familySecretary} \cup
    UNION {
        UNION {
            LET m == fam.grandParents[g].families[i] IN
            ({m.father, m.mother} \cup
             {m.children[c].student : c \in DOMAIN m.children}) \cap StudentIds
            : i \in DOMAIN fam.grandParents[g].families}
        : g \in DOMAIN fam.grandParents}

\* commonAddressLevel / commonAddressValue of a pair of parents
CommonAddress(father, mother) ==
    IF father.region # "" /\ mother.region # "" /\ father.region = mother.region
    THEN IF father.zone # "" /\ mother.zone # "" /\ father.zone = mother.zone
         THEN IF father.wereda # "" /\ mother.wereda # "" /\ father.wereda = mother.wereda
              THEN IF father.kebele # "" /\ mother.kebele # "" /\ father.kebele = mother.kebele
                   THEN [level |-> "kebele", value |-> father.kebele]
                   ELSE [level |-> "wereda", value |-> father.wereda]
              ELSE [level |-> "zone", value |-> father.zone]
         ELSE [level |-> "region", value |-> father.region]
    ELSE [level |-> "", value |-> ""]

CountRel(children, rel) ==
    Cardinality({c \in DOMAIN children : children[c].relationship = rel})

\* capacity of a slot
Capacity(maxChildrenPerFamily, existing) == Max(0, maxChildrenPerFamily - existing)

\* the FamilyAssignment entry pushed for pair i of grand parent g of family f
FamilyAssignment(cfg, fams, f, g, i) ==
    LET fam == fams[f]
        m == fam.grandParents[g].families[i]
        father == students[m.father]
        mother == students[m.mother]
        common == CommonAddress(father, mother)
    IN [familyId |-> f, familyTitle |-> fam.title,
        gpIndex |-> g, familyIndex |-> i,
        father |-> father, mother |-> mother,
        allowOtherBatches |-> fam.allowOtherBatches,
        existingChildren |-> Len(m.children),
        genderStats |-> [sons |-> CountRel(m.children, "son"),
                         daughters |-> CountRel(m.children, "daughter")],
        capacity |-> Capacity(cfg.maxChildrenPerFamily, Len(m.children)),
        commonAddressLevel |-> common.level,
        commonAddressValue |-> common.value,
        parentsFromTargetBatch |->
            father.batch = cfg.targetBatch /\ mother.batch = cfg.targetBatch,
        studentsInThisFamilyDoc |-> studentsInThisFamilyDoc(fam)]

\* whether the loop over the pairs pushes an entry for this pair
PairListed(cfg, fams, f, g, i) ==
    LET fam == fams[f]
        m == fam.grandParents[g].families[i]
    IN /\ m.father \in StudentIds
       /\ m.mother \in StudentIds
       /\ \/ fam.allowOtherBatches
          \/ /\ students[m.father].batch = cfg.targetBatch
             /\ students[m.mother].batch = cfg.targetBatch

\* familyAssignments: one entry per listed pair, in document order, of the
\* families the query returned
familyAssignments(cfg, fams) ==
    Flatten([f \in DOMAIN fams |->
        IF ~EligibleQuery(fams[f]) THEN <<>> ELSE
        Flatten([g \in DOMAIN fams[f].grandParents |->
            Flatten([i \in DOMAIN fams[f].grandParents[g].families |->
                IF PairListed(cfg, fams, f, g, i)
                THEN <<FamilyAssignment(cfg, fams, f, g, i)>>
                ELSE <<>>])])])

\* the filter on capacity alone
SlotKeptOnCapacity(cfg, fa) == fa.capacity > 0

\* the filters on capacity and, in homogeneous mode, on a common address
SlotKept(cfg, fa) ==
    /\ fa.capacity > 0
    /\ cfg.mode = "homogeneous" => fa.commonAddressLevel # ""

\* comparator of the priority sort
ComparePriority(a, b) ==
    IF a.existingChildren # b.existingChildren
    THEN a.existingChildren - b.existingChildren
    ELSE Abs(b.genderStats.sons - b.genderStats.daughters)
         - Abs(a.genderStats.sons - a.genderStats.daughters)

RECURSIVE InsertSorted(_, _)
InsertSorted(s, sorted) ==
    IF sorted = <<>> THEN <<s>>
    ELSE IF ComparePriority(s, Head(sorted)) < 0 THEN <<s>> \o sorted
    ELSE <<Head(sorted)>> \o InsertSorted(s, Tail(sorted))

\* the slots left in document order
SortByDocumentOrder(seq) == seq

\* Array.prototype.sort with the comparator: a stable sort
RECURSIVE SortByPriority(_)
SortByPriority(seq) ==
    IF seq = <<>> THEN <<>>
    ELSE InsertSorted(seq[Len(seq)], SortByPriority(SubSeq(seq, 1, Len(seq) - 1)))

\* eligibleFamilyAssignments after the filters and the sort
eligibleFamilyAssignments(cfg, fams) ==
    SortByPriority(SelectSeq(familyAssignments(cfg, fams),
                             LAMBDA fa : SlotKept(cfg, fa)))

\* allStudentsInBatch: Student.find({batch: targetBatch, isActive: true}),
\* in collection order
RECURSIVE IdsFrom(_, _)
IdsFrom(k, keep) ==
    IF k > Len(students) THEN <<>>
    ELSE (IF k \in keep THEN <<k>> ELSE <<>>) \o IdsFrom(k + 1, keep)

allStudentsInBatch(targetBatch) ==
    IdsFrom(1, {k \in StudentIds :
                  students[k].batch = targetBatch /\ students[k].isActive})

----------------------------------------------------------------------------
(* autoAssignChildren: scoring and the assignment loop *)

Age(student) == CurrentYear - student.dateOfBirth

\* calculateDiversityScore
calculateDiversityScore(child, father, mother) ==
    IF child.region # father.region /\ child.region # mother.region THEN 4
    ELSE IF child.zone # "" /\ (child.zone # father.zone \/ child.zone # mother.zone)
         THEN 3
    ELSE IF child.zone # "" /\ child.zone = father.zone /\ child.zone = mother.zone
         THEN IF child.wereda # "" /\ (child.wereda # father.wereda
                                       \/ child.wereda # mother.wereda)
              THEN 2
              ELSE IF child.wereda # "" /\ child.wereda = father.wereda
                                        /\ child.wereda = mother.wereda
                   THEN IF child.kebele # "" /\ (child.kebele # father.kebele
                                                 \/ child.kebele # mother.kebele)
                        THEN 1 ELSE 0
                   ELSE 0
    ELSE 0

\* every age accepted
isAgeAppropriateAlways(cfg, child, father, mother) == TRUE

\* isAgeAppropriate
isAgeAppropriate(cfg, child, father, mother) ==
    IF ~cfg.considerAge \/ child.dateOfBirth = 0 \/ father.dateOfBirth = 0
       \/ mother.dateOfBirth = 0
    THEN TRUE
    ELSE Age(child) <= Max(Age(father), Age(mother)) + 5

\* no preference whatever the counts
getGenderPreferenceAny(cfg, genderStats) == "any"

\* getGenderPreference
getGenderPreference(cfg, genderStats) ==
    IF ~cfg.considerGenderBalance THEN "any"
    ELSE IF genderStats.sons > genderStats.daughters THEN "female"
    ELSE IF genderStats.daughters > genderStats.sons THEN "male"
    ELSE "any"

\* the probe of the coarser levels: j runs from the slot's level + 1 to the
\* end of Levels (k is j + 1); the first level at which student and father
\* agree scores 50 - j * 10
RECURSIVE ProbeCoarser(_, _, _)
ProbeCoarser(student, father, k) ==
    IF k > Len(Levels) THEN [score |-> 0, addressMatch |-> <<>>]
    ELSE IF student[Levels[k]] # "" /\ father[Levels[k]] # ""
            /\ student[Levels[k]] = father[Levels[k]]
         THEN [score |-> 50 - (k - 1) * 10,
               addressMatch |-> <<"Matched", Levels[k], student[Levels[k]]>>]
         ELSE ProbeCoarser(student, father, k + 1)

\* the mode score with the coarser levels counted from the slot's level
ModeScoreBySteps(cfg, fa, student) ==
    IF cfg.mode = "homogeneous" /\ fa.commonAddressLevel # ""
    THEN IF student[fa.commonAddressLevel] # ""
            /\ student[fa.commonAddressLevel] = fa.commonAddressValue
         THEN [score |-> 100,
               addressMatch |-> <<"Matched", fa.commonAddressLevel,
                                  student[fa.commonAddressLevel]>>]
         ELSE LET probe == ProbeCoarser(student, fa.father,
                                        IndexOfLevel(fa.commonAddressLevel) + 1)
              IN IF probe.score = 0 THEN probe
                 ELSE [probe EXCEPT !.score =
                          @ + 10 * (IndexOfLevel(fa.commonAddressLevel) - 1)]
    ELSE [score |-> calculateDiversityScore(student, fa.father, fa.mother),
          addressMatch |-> <<>>]

\* the mode score of a student for a slot, with its address-match text
ModeScore(cfg, fa, student) ==
    IF cfg.mode = "homogeneous" /\ fa.commonAddressLevel # ""
    THEN IF student[fa.commonAddressLevel] # ""
            /\ student[fa.commonAddressLevel] = fa.commonAddressValue
         THEN [score |-> 100,
               addressMatch |-> <<"Matched", fa.commonAddressLevel,
                                  student[fa.commonAddressLevel]>>]
         ELSE ProbeCoarser(student, fa.father,
                           IndexOfLevel(fa.commonAddressLevel) + 1)
    ELSE [score |-> calculateDiversityScore(student, fa.father, fa.mother),
          addressMatch |-> <<>>]

\* the tie-breakers, in hundredths
TieBreaker(cfg, genderStats, student) ==
    (IF student.dateOfBirth # 0 THEN (30 - Age(student)) * 10 ELSE 0)
    + (IF getGenderPreference(cfg, genderStats) = student.gender
       THEN Abs(genderStats.sons - genderStats.daughters) * 5 ELSE 0)

\* the hard filters of one pass of the candidate loop
PassesFilters(cfg, fa, genderStats, student) ==
    /\ ~fa.allowOtherBatches => student.batch = cfg.targetBatch
    /\ isAgeAppropriate(cfg, student, fa.father, fa.mother)
    /\ LET genderPreference == getGenderPreference(cfg, genderStats) IN
       genderPreference = "any" \/ student.gender = genderPreference

\* bestScore = -1, no candidate
NoBest == [index |-> 0, score |-> -100, addressMatch |-> <<>>]

\* the candidate loop: the first candidate with the strictly highest
\* totalScore above bestScore
RECURSIVE FindBest(_, _, _, _, _, _)
FindBest(cfg, fa, genderStats, available, i, best) ==
    IF i > Len(available) THEN best
    ELSE LET student == students[available[i]]
             ms == ModeScore(cfg, fa, student)
             totalScore == ms.score * 100 + TieBreaker(cfg, genderStats, student)
         IN IF /\ PassesFilters(cfg, fa, genderStats, student)
               /\ ms.score # 0
               /\ totalScore > best.score
            THEN FindBest(cfg, fa, genderStats, available, i + 1,
                          [index |-> i, score |-> totalScore,
                           addressMatch |-> ms.addressMatch])
            ELSE FindBest(cfg, fa, genderStats, available, i + 1, best)

RemoveAt(seq, k) == SubSeq(seq, 1, k - 1) \o SubSeq(seq, k + 1, Len(seq))

\* the Assignment object, with its mode-specific property
Assignment(cfg, fa, studentId, relationship, birthOrder, best) ==
    IF cfg.mode = "homogeneous"
    THEN [familyId |-> fa.familyId, gpIndex |-> fa.gpIndex,
          familyIndex |-> fa.familyIndex, studentId |-> studentId,
          relationship |-> relationship, birthOrder |-> birthOrder,
          addressMatch |-> best.addressMatch]
    ELSE [familyId |-> fa.familyId, gpIndex |-> fa.gpIndex,
          familyIndex |-> fa.familyIndex, studentId |-> studentId,
          relationship |-> relationship, birthOrder |-> birthOrder,
          diversityScore |-> best.score]

\* the while loop's condition with <= in place of <
SlotContinuesInclusive(fa, assignedCount, available) ==
    assignedCount <= fa.capacity /\ Len(available) > 0

\* condition of the while loop of a slot
SlotContinues(fa, assignedCount, available) ==
    assignedCount < fa.capacity /\ Len(available) > 0

\* the while loop of one slot; out carries assignments, failedAssignments,
\* newlyAssignedStudentIds and the number of passes of the loop body
RECURSIVE SlotLoop(_, _, _, _, _, _)
SlotLoop(cfg, fa, genderStats, available, assignedCount, out) ==
    IF ~SlotContinues(fa, assignedCount, available) THEN out
    ELSE LET best == FindBest(cfg, fa, genderStats, available, 1, NoBest) IN
         IF best.index = 0
         THEN [out EXCEPT !.failedAssignments =
                   Append(@, [familyId |-> fa.familyId,
                              familyTitle |-> fa.familyTitle,
                              reason |-> "No suitable students available matching criteria"]),
                          !.passes = @ + 1]
         ELSE LET studentId == available[best.index]
                  relationship == IF students[studentId].gender = "male"
                                  THEN "son" ELSE "daughter"
                  birthOrder == fa.existingChildren + assignedCount + 1
              IN SlotLoop(cfg, fa,
                     IF relationship = "son"
                     THEN [genderStats EXCEPT !.sons = @ + 1]
                     ELSE [genderStats EXCEPT !.daughters = @ + 1],
                     RemoveAt(available, best.index),
                     assignedCount + 1,
                     [out EXCEPT
                        !.assignments = Append(@, Assignment(cfg, fa, studentId,
                                                  relationship, birthOrder, best)),
                        !.newlyAssignedStudentIds = @ \cup {studentId},
                        !.passes = @ + 1])

\* availableStudentsForThisFamily without the filter on the students
\* assigned earlier in the run
availableStudentsIgnoringRun(fa, inBatch, newlyAssignedStudentIds) ==
    SelectSeq(inBatch, LAMBDA id : id \notin fa.studentsInThisFamilyDoc)

\* availableStudentsForThisFamily
availableStudentsForThisFamily(fa, inBatch, newlyAssignedStudentIds) ==
    SelectSeq(inBatch, LAMBDA id :
        id \notin fa.studentsInThisFamilyDoc /\ id \notin newlyAssignedStudentIds)

\* the main assignment loop over the sorted slots
RECURSIVE MainLoop(_, _, _, _, _)
MainLoop(cfg, slots, inBatch, k, out) ==
    IF k > Len(slots) THEN out
    ELSE IF slots[k].capacity <= 0 THEN MainLoop(cfg, slots, inBatch, k + 1, out)
    ELSE MainLoop(cfg, slots, inBatch, k + 1,
             SlotLoop(cfg, slots[k], slots[k].genderStats,
                      availableStudentsForThisFamily(slots[k], inBatch,
                                                     out.newlyAssignedStudentIds),
                      0, out))

\* errorResponse called without its status: the default, 500
ErrorResponseByDefault(cfg, status, message) ==
    [status |-> 500, message |-> message, configuration |-> cfg,
     assignments |-> <<>>, failedAssignments |-> <<>>]

ErrorResponse(cfg, status, message) ==
    [status |-> status, message |-> message, configuration |-> cfg,
     assignments |-> <<>>, failedAssignments |-> <<>>]

\* the statistics with the unique students counted over the familyId
StatisticsByFamily(assignments) ==
    LET sons == Cardinality({k \in DOMAIN assignments :
                                assignments[k].relationship = "son"})
        daughters == Cardinality({k \in DOMAIN assignments :
                                     assignments[k].relationship = "daughter"})
    IN [totalAssigned |-> Len(assignments),
        totalFamiliesAffected |->
            Cardinality({assignments[k].familyId : k \in DOMAIN assignments}),
        uniqueStudentsAssigned |->
            Cardinality({assignments[k].familyId : k \in DOMAIN assignments}),
        genderDistribution |-> [sons |-> sons, daughters |-> daughters,
                                balance |-> Abs(sons - daughters)]]

\* statistics of the response: counts and gender distribution
Statistics(assignments) ==
    LET sons == Cardinality({k \in DOMAIN assignments :
                                assignments[k].relationship = "son"})
        daughters == Cardinality({k \in DOMAIN assignments :
                                     assignments[k].relationship = "daughter"})
    IN [totalAssigned |-> Len(assignments),
        totalFamiliesAffected |->
            Cardinality({assignments[k].familyId : k \in DOMAIN assignments}),
        uniqueStudentsAssigned |->
            Cardinality({assignments[k].studentId : k \in DOMAIN assignments}),
        genderDistribution |-> [sons |-> sons, daughters |-> daughters,
                                balance |-> Abs(sons - daughters)]]

\* the response of autoAssignChildren on the Family collection fams
PreviewResponse(cfg, fams) ==
    IF cfg.mode = "" \/ cfg.targetBatch = ""
    THEN ErrorResponse(cfg, 400, "Mode and target batch are required")
    ELSE IF cfg.mode # "homogeneous" /\ cfg.mode # "heterogeneous"
    THEN ErrorResponse(cfg, 400, "Mode must be either homogeneous or heterogeneous")
    ELSE IF \A f \in DOMAIN fams : ~EligibleQuery(fams[f])
    THEN ErrorResponse(cfg, 400, "No eligible families found (families with both parents)")
    ELSE IF allStudentsInBatch(cfg.targetBatch) = <<>>
    THEN ErrorResponse(cfg, 400, "No students found in batch")
    ELSE IF eligibleFamilyAssignments(cfg, fams) = <<>>
    THEN ErrorResponse(cfg, 400, "No families available for assignment with current criteria")
    ELSE LET out == MainLoop(cfg, eligibleFamilyAssignments(cfg, fams),
                             allStudentsInBatch(cfg.targetBatch), 1,
                             [assignments |-> <<>>, failedAssignments |-> <<>>,
                              newlyAssignedStudentIds |-> {}, passes |-> 0])
         IN [status |-> 200,
             message |-> "Preview generated successfully. Review and confirm to save.",
             configuration |-> cfg,
             assignments |-> out.assignments,
             statistics |-> Statistics(out.assignments),
             failedAssignments |-> out.failedAssignments]

----------------------------------------------------------------------------
(* Requests *)

Reqs == 1..MaxReqs

Idle == [pc |-> "idle"]

\* the request slots are interchangeable: a request takes the first idle one
Free(p) ==
    /\ req[p].pc = "idle"
    /\ \A q \in Reqs : q < p => req[q].pc # "idle"

Response(status, message) == [status |-> status, message |-> message]

----------------------------------------------------------------------------
(* createFamily *)

BodyA(children) ==
    [title |-> "A", batch |-> "B1", allowOtherBatches |-> FALSE,
     familyLeader |-> 11, familyCoLeader |-> 12, familySecretary |-> 13,
     grandParents |-> <<GrandParent(14, 0, <<FamilyMember(1, 2, children)>>)>>]

BodyB ==
    [title |-> "B", batch |-> "B1", allowOtherBatches |-> FALSE,
     familyLeader |-> 11, familyCoLeader |-> 12, familySecretary |-> 13,
     grandParents |-> <<GrandParent(14, 15, <<FamilyMember(3, 4, <<>>)>>)>>]

BodyC ==
    [title |-> "C", batch |-> "B1", allowOtherBatches |-> TRUE,
     familyLeader |-> 5, familyCoLeader |-> 12, familySecretary |-> 13,
     grandParents |-> <<GrandParent(7, 0,
         <<FamilyMember(3, 4, <<Child(6, "daughter", 1)>>),
           FamilyMember(1, 2, <<>>)>>)>>]

BodyE ==
    [title |-> "E", batch |-> "B2", allowOtherBatches |-> TRUE,
     familyLeader |-> 11, familyCoLeader |-> 12, familySecretary |-> 13,
     grandParents |-> <<GrandParent(14, 0, <<FamilyMember(3, 4, <<>>)>>)>>]

BodyF ==
    [title |-> "F", batch |-> "B1", allowOtherBatches |-> TRUE,
     familyLeader |-> 13, familyCoLeader |-> 14, familySecretary |-> 15,
     grandParents |-> <<GrandParent(0, 12, <<FamilyMember(1, 2, <<>>)>>)>>]

\* a second grand parent without pairs yet
BodyG ==
    [title |-> "G", batch |-> "B1", allowOtherBatches |-> FALSE,
     familyLeader |-> 11, familyCoLeader |-> 13, familySecretary |-> 15,
     grandParents |-> <<GrandParent(14, 0, <<FamilyMember(1, 2, <<>>)>>),
                        GrandParent(0, 12, <<>>)>>]

BodyD ==
    [title |-> "D", batch |-> "B1", allowOtherBatches |-> FALSE,
     familyLeader |-> 11, familyCoLeader |-> 11, familySecretary |-> 13,
     grandParents |-> <<GrandParent(14, 0, <<FamilyMember(1, 2, <<>>)>>)>>]

\* request bodies of createFamily: family A (batch B1, one pair of B1
\* parents), family E (batch B2, open to other batches, one pair of B2
\* parents), and a body whose leader is also its co-leader
CreateBodies == {BodyA(<<>>), BodyE, BodyD}

\* the validations of createFamily, in order; "" when the body passes
CreateError(body) ==
    IF ~checkForDuplicateStudents(body)
    THEN "Duplicate students found within family"
    ELSE IF ~validateGenderForFamilyMembers(body) THEN "Gender validation failed"
    ELSE IF ~validateChildrenBatch(body, body.allowOtherBatches)
    THEN "Batch validation failed"
    ELSE IF ~AllStudentsExist(body) THEN "One or more students not found"
    ELSE ""

\* new Family({...familyData, allowOtherBatches, familyDate, status, createdBy})
NewFamily(body) ==
    [title |-> body.title, batch |-> body.batch,
     allowOtherBatches |-> body.allowOtherBatches, status |-> "current",
     familyLeader |-> body.familyLeader, familyCoLeader |-> body.familyCoLeader,
     familySecretary |-> body.familySecretary, grandParents |-> body.grandParents]

\* createFamily; the unique index on title rejects a second family of a title
createFamily(body) ==
    /\ Len(families) < MaxFamilies
    /\ IF CreateError(body) # ""
       THEN UNCHANGED families
       ELSE IF \E f \in DOMAIN families : families[f].title = body.title
       THEN UNCHANGED families
       ELSE families' = Append(families, NewFamily(body))
    /\ UNCHANGED <<students, preview, response, req, wallets, transactions>>

----------------------------------------------------------------------------
(* Transactions of the storage engine, as executeAutoAssignChildren uses   *)
(* them: a transaction reads from the snapshot of the committed collection *)
(* taken at its first read, overlaid with its own writes; its writes stay  *)
(* in its view until commitTransaction; a write to a document that another *)
(* open transaction wrote, or that was written since the snapshot, fails   *)
(* with a write conflict; a write outside a transaction waits for the open *)
(* transaction that wrote the document.                                    *)

InTransaction(r) == r.pc = "executeAutoAssignChildren"

\* families written by the open transaction of another request
LockedByOther(p) ==
    UNION {req[q].written : q \in {r \in Reqs \ {p} : InTransaction(req[r])}}

\* a write committed to the families ids makes them stale for every open
\* transaction, other than p's, that has taken its snapshot
MarkStale(rq, p, ids) ==
    [q \in Reqs |->
        IF q # p /\ InTransaction(rq[q]) /\ rq[q].next > 1
        THEN [rq[q] EXCEPT !.stale = @ \cup ids]
        ELSE rq[q]]

----------------------------------------------------------------------------
(* updateFamily *)

\* grandParents with the grand mother of entry g set to student s
SetGrandMother(grandParents, g, s) ==
    [grandParents EXCEPT ![g].grandMother = s]

\* request bodies of updateFamily on the document fam as the client holds
\* it: student 5 becomes the grand mother of the first grand parent
UpdateBodies(fam) ==
    {[grandParents |-> SetGrandMother(fam.grandParents, 1, 5)]}

\* updateData.x || existingFamily.x
Merged(updateData, existingFamily, field) ==
    IF field \in DOMAIN updateData THEN updateData[field] ELSE existingFamily[field]

\* familyDataForValidation of updateFamily
familyDataForValidation(updateData, existingFamily) ==
    [title |-> Merged(updateData, existingFamily, "title"),
     batch |-> Merged(updateData, existingFamily, "batch"),
     familyLeader |-> Merged(updateData, existingFamily, "familyLeader"),
     familyCoLeader |-> Merged(updateData, existingFamily, "familyCoLeader"),
     familySecretary |-> Merged(updateData, existingFamily, "familySecretary"),
     grandParents |-> Merged(updateData, existingFamily, "grandParents")]

\* the validations of updateFamily, in order; "" when the update passes
UpdateError(updateData, existingFamily) ==
    LET data == familyDataForValidation(updateData, existingFamily) IN
    IF ~checkForDuplicateStudents(data)
    THEN "Duplicate students found within family"
    ELSE IF ~validateGenderForFamilyMembers(data) THEN "Gender validation failed"
    ELSE IF ~validateChildrenBatch(data,
                Merged(updateData, existingFamily, "allowOtherBatches"))
    THEN "Batch validation failed"
    ELSE IF ~AllStudentsExist(data) THEN "One or more students not found"
    ELSE ""

\* Family.findByIdAndUpdate(id, updateData): the fields of updateData are set
ApplyUpdate(fam, updateData) ==
    [k \in DOMAIN fam |-> IF k \in DOMAIN updateData THEN updateData[k] ELSE fam[k]]

\* updateFamily, up to Family.findById
updateFamilyRead(p, id, body) ==
    /\ Free(p)
    /\ id \in DOMAIN families
    /\ req' = [req EXCEPT ![p] = [pc |-> "updateFamily", id |-> id,
                                  updateData |-> body,
                                  existingFamily |-> families[id]]]
    /\ UNCHANGED <<students, families, preview, response, wallets, transactions>>

\* updateFamily, from the validations to Family.findByIdAndUpdate
updateFamilyWrite(p) ==
    /\ req[p].pc = "updateFamily"
    /\ LET r == req[p] IN
       IF UpdateError(r.updateData, r.existingFamily) # ""
       THEN /\ req' = [req EXCEPT ![p] = Idle]
            /\ UNCHANGED families
       ELSE /\ r.id \notin LockedByOther(p)
            /\ families' = [families EXCEPT ![r.id] = ApplyUpdate(@, r.updateData)]
            /\ req' = MarkStale([req EXCEPT ![p] = Idle], p, {r.id})
    /\ UNCHANGED <<students, preview, response, wallets, transactions>>

----------------------------------------------------------------------------
(* addChildrenToFamily *)

\* $push of child entries at grandParents.g.families.i.children
PushChildren(fam, g, i, entries) ==
    [fam EXCEPT !.grandParents[g].families[i].children = @ \o entries]

\* the set collected without the children
FamilyStudentIdsOfAdults(fam) ==
    {fam.familyLeader, fam.familyCoLeader, fam.familySecretary} \cup
    UNION {({fam.grandParents[g].grandFather, fam.grandParents[g].grandMother}
               \ {0}) \cup
           UNION {{fam.grandParents[g].families[i].father,
                   fam.grandParents[g].families[i].mother}
                  : i \in DOMAIN fam.grandParents[g].families}
           : g \in DOMAIN fam.grandParents}

\* the set collected without the grand fathers and grand mothers
FamilyStudentIdsOfPairs(fam) ==
    {fam.familyLeader, fam.familyCoLeader, fam.familySecretary} \cup
    UNION {UNION {LET m == fam.grandParents[g].families[i] IN
                  {m.father, m.mother} \cup
                  {m.children[c].student : c \in DOMAIN m.children}
                  : i \in DOMAIN fam.grandParents[g].families}
           : g \in DOMAIN fam.grandParents}

\* the set the handlers collect from a document read without populate:
\* leaders, grand parents, parents and children
FamilyStudentIds(fam) == Range(MemberList(fam))

RelationshipOf(s) == IF students[s].gender = "male" THEN "son" ELSE "daughter"

\* children arrays a client sends for a pair that holds n children:
\* student 7 as the next child
ChildrenBodies(n) ==
    {<<Child(7, RelationshipOf(7), n + 1)>>}

\* addChildrenToFamily, up to Family.findById and the check of the indices
addChildrenToFamilyRead(p, id, grandParentIndex, familyIndex, children) ==
    /\ Free(p)
    /\ id \in DOMAIN families
    /\ grandParentIndex \in DOMAIN families[id].grandParents
    /\ familyIndex \in DOMAIN families[id].grandParents[grandParentIndex].families
    /\ req' = [req EXCEPT ![p] =
                  [pc |-> "addChildrenToFamily", id |-> id,
                   grandParentIndex |-> grandParentIndex,
                   familyIndex |-> familyIndex,
                   children |-> children, family |-> families[id]]]
    /\ UNCHANGED <<students, families, preview, response, wallets, transactions>>

\* the validations of addChildrenToFamily on the document it read, in
\* order; "" when the children pass
AddChildrenError(children, family) ==
    LET studentIds == [c \in DOMAIN children |-> children[c].student]
        found == FindStudents(Range(studentIds))
    IN IF Cardinality(found) # Len(studentIds) THEN "One or more students not found"
       ELSE IF \E c \in DOMAIN children :
                  children[c].student \in FamilyStudentIds(family)
       THEN "Student is already in this family"
       ELSE IF ~family.allowOtherBatches
               /\ \E s \in found : students[s].batch # family.batch
       THEN "Student must be from the batch of the family"
       ELSE ""

\* addChildrenToFamily, from Student.find to Family.findByIdAndUpdate
addChildrenToFamilyWrite(p) ==
    /\ req[p].pc = "addChildrenToFamily"
    /\ LET r == req[p] IN
       IF AddChildrenError(r.children, r.family) # ""
       THEN /\ req' = [req EXCEPT ![p] = Idle]
            /\ UNCHANGED families
       ELSE /\ r.id \notin LockedByOther(p)
            /\ families' = [families EXCEPT ![r.id] =
                               PushChildren(@, r.grandParentIndex, r.familyIndex,
                                            r.children)]
            /\ req' = MarkStale([req EXCEPT ![p] = Idle], p, {r.id})
    /\ UNCHANGED <<students, preview, response, wallets, transactions>>

----------------------------------------------------------------------------
(* autoAssignChildren as a request *)

Modes == {"homogeneous", "heterogeneous", "random", ""}

TargetBatches == {"B0", "B1", "B2", "B3", ""}

Configurations ==
    [mode : Modes, targetBatch : TargetBatches,
     maxChildrenPerFamily : 1..MaxCap,
     considerGenderBalance : BOOLEAN, considerAge : BOOLEAN]

\* the request of an operator who asks for one child per pair from batch
\* B1, in heterogeneous mode, and keeps the defaults of
\* considerGenderBalance and considerAge
OperatorConfigurations ==
    {cfg \in Configurations :
        /\ cfg.mode = "heterogeneous"
        /\ cfg.targetBatch = "B1"
        /\ cfg.maxChildrenPerFamily = 1
        /\ cfg.considerGenderBalance /\ cfg.considerAge}

\* autoAssignChildren that also saves the first child it proposes
autoAssignChildrenSaving(cfg) ==
    LET result == PreviewResponse(cfg, families) IN
    /\ preview' = result
    /\ families' =
          IF result.assignments = <<>> THEN families
          ELSE LET a == result.assignments[1] IN
               [families EXCEPT ![a.familyId] =
                   PushChildren(@, a.gpIndex, a.familyIndex,
                       <<Child(a.studentId, a.relationship, a.birthOrder)>>)]
    /\ UNCHANGED <<students, response, req, wallets, transactions>>

\* autoAssignChildren: Family.find, Student.find and the response
autoAssignChildren(cfg) ==
    /\ preview' = PreviewResponse(cfg, families)
    /\ UNCHANGED <<students, families, response, req, wallets, transactions>>

----------------------------------------------------------------------------
(* executeAutoAssignChildren *)

\* the subsequences of a sequence, order kept
RECURSIVE SubLists(_)
SubLists(list) ==
    IF list = <<>> THEN {<<>>}
    ELSE LET rest == SubLists(Tail(list)) IN
         rest \cup {<<Head(list)>> \o t : t \in rest}

\* executeAutoAssignChildren, up to session.startTransaction()
executeBegin(p, assignments) ==
    /\ Free(p)
    /\ IF assignments = <<>>
       THEN /\ response' = Response(400, "No assignments to execute")
            /\ UNCHANGED req
       ELSE /\ req' = [req EXCEPT ![p] =
                  [pc |-> "executeAutoAssignChildren", assignments |-> assignments,
                   next |-> 1, view |-> <<>>, written |-> {}, stale |-> {}]]
            /\ UNCHANGED response
    /\ UNCHANGED <<students, families, preview, wallets, transactions>>

\* the error response for a student found in the target family
ConflictResponse(studentId, familyTitle) ==
    [status |-> 500, message |-> "Student is already in family",
     studentId |-> studentId, familyTitle |-> familyTitle]

\* Family.findById(familyId).session(session): the collection as the
\* transaction of r reads it
SessionView(r) == IF r.next = 1 THEN families ELSE r.view

\* the $push issued without the session: the child entry is committed at
\* once
PushOutsideSession(committed, view, a) ==
    LET entry == <<Child(a.studentId, a.relationship, a.birthOrder)>> IN
    [committed |-> [committed EXCEPT ![a.familyId] =
                       PushChildren(@, a.gpIndex, a.familyIndex, entry)],
     view |-> [view EXCEPT ![a.familyId] =
                  PushChildren(@, a.gpIndex, a.familyIndex, entry)]]

\* Family.findByIdAndUpdate(familyId, {$push: ...}, {session}): the child
\* entry goes to the transaction's view, the committed collection is left
PushInSession(committed, view, a) ==
    [committed |-> committed,
     view |-> [view EXCEPT ![a.familyId] =
                  PushChildren(@, a.gpIndex, a.familyIndex,
                      <<Child(a.studentId, a.relationship, a.birthOrder)>>)]]

\* writes that never meet a write conflict
NoWriteConflict(p, id) == FALSE

\* the write of the transaction of p to family id meets a write conflict
WriteConflict(p, id) == id \in req[p].stale \cup LockedByOther(p)

\* one pass of the loop over the assignments; an error aborts the
\* transaction and is answered with status 500
executeStep(p) ==
    /\ req[p].pc = "executeAutoAssignChildren"
    /\ req[p].next <= Len(req[p].assignments)
    /\ LET r == req[p]
           a == r.assignments[r.next]
           view == SessionView(r)
       IN IF a.familyId \notin DOMAIN view
          THEN /\ response' = Response(500, "Family not found")
               /\ req' = [req EXCEPT ![p] = Idle]
               /\ UNCHANGED families
          ELSE IF a.studentId \in FamilyStudentIds(view[a.familyId])
          THEN /\ response' = ConflictResponse(a.studentId, view[a.familyId].title)
               /\ req' = [req EXCEPT ![p] = Idle]
               /\ UNCHANGED families
          ELSE IF WriteConflict(p, a.familyId)
          THEN /\ response' = Response(500, "WriteConflict")
               /\ req' = [req EXCEPT ![p] = Idle]
               /\ UNCHANGED families
          ELSE LET pushed == PushInSession(families, view, a) IN
               /\ families' = pushed.committed
               /\ req' = [req EXCEPT ![p] =
                     [r EXCEPT
                        !.next = @ + 1,
                        !.view = pushed.view,
                        !.written = @ \cup {a.familyId}]]
               /\ UNCHANGED response
    /\ UNCHANGED <<students, preview, wallets, transactions>>

\* a commit that stores the whole view of the transaction
executeCommitView(p) ==
    /\ req[p].pc = "executeAutoAssignChildren"
    /\ req[p].next > Len(req[p].assignments)
    /\ families' = req[p].view
    /\ response' = [status |-> 200, message |-> "Successfully assigned children",
                    assigned |-> Len(req[p].assignments)]
    /\ req' = MarkStale([req EXCEPT ![p] = Idle], p, req[p].written)
    /\ UNCHANGED <<students, preview, wallets, transactions>>

\* session.commitTransaction() and the success response
executeCommit(p) ==
    /\ req[p].pc = "executeAutoAssignChildren"
    /\ req[p].next > Len(req[p].assignments)
    /\ families' = [f \in DOMAIN families |->
                       IF f \in req[p].written THEN req[p].view[f] ELSE families[f]]
    /\ response' = [status |-> 200, message |-> "Successfully assigned children",
                    assigned |-> Len(req[p].assignments)]
    /\ req' = MarkStale([req EXCEPT ![p] = Idle], p, req[p].written)
    /\ UNCHANGED <<students, preview, wallets, transactions>>

----------------------------------------------------------------------------
(* The system: the handlers of the family routes, interleaved *)

NoPreview ==
    [status |-> 0, message |-> "", configuration |-> <<>>,
     assignments |-> <<>>, failedAssignments |-> <<>>]

Init ==
    /\ students = SeedStudents
    /\ families = <<>>
    /\ preview = NoPreview
    /\ response = Response(0, "")
    /\ req = [p \in Reqs |-> Idle]
    /\ wallets = <<>>
    /\ transactions = <<>>

Next ==
    \/ \E body \in CreateBodies : createFamily(body)
    \/ \E p \in Reqs, id \in DOMAIN families :
          \E body \in UpdateBodies(families[id]) : updateFamilyRead(p, id, body)
    \/ \E p \in Reqs : updateFamilyWrite(p)
    \/ \E p \in Reqs, id \in DOMAIN families :
          \E g \in DOMAIN families[id].grandParents :
             \E i \in DOMAIN families[id].grandParents[g].families :
                /\ Len(families[id].grandParents[g].families[i].children) < MaxKids
                /\ \E children \in ChildrenBodies(
                          Len(families[id].grandParents[g].families[i].children)) :
                      addChildrenToFamilyRead(p, id, g, i, children)
    \/ \E p \in Reqs : addChildrenToFamilyWrite(p)
    \/ \E cfg \in OperatorConfigurations : autoAssignChildren(cfg)
    \/ \E p \in Reqs : \E list \in SubLists(preview.assignments) : executeBegin(p, list)
    \/ \E p \in Reqs : executeStep(p)
    \/ \E p \in Reqs : executeCommit(p)

Spec == Init /\ [][Next]_vars

----------------------------------------------------------------------------
(* The preview alone: autoAssignChildren on stored Family collections *)

\* documents the collection may hold: bodies that createFamily accepted,
\* family A also with a child added by addChildrenToFamily
StoredDocuments ==
    {NewFamily(body) :
        body \in {b \in {BodyA(<<>>), BodyA(<<Child(6, "daughter", 1)>>),
                         BodyB, BodyC, BodyE, BodyF, BodyG, BodyD} : CreateError(b) = ""}}

\* the collections of up to MaxFamilies documents, titles unique
StoredCollections ==
    UNION {{c \in [1..n -> StoredDocuments] :
               \A i, j \in 1..n : c[i].title = c[j].title => i = j}
           : n \in 0..MaxFamilies}

InitPreview ==
    /\ students = SeedStudents
    /\ families \in StoredCollections
    /\ preview = NoPreview
    /\ response = Response(0, "")
    /\ req = [p \in Reqs |-> Idle]
    /\ wallets = <<>>
    /\ transactions = <<>>

NextPreview == \E cfg \in Configurations : autoAssignChildren(cfg)

SpecPreview == InitPreview /\ [][NextPreview]_vars

----------------------------------------------------------------------------
(* Properties of a preview *)

\* the student identifiers of the Assignments of the last preview, in order
AssignedStudents ==
    [k \in DOMAIN preview.assignments |-> preview.assignments[k].studentId]

\* the Assignments of the last preview that target pair i of grand parent g
\* of family f
AssignmentsOfSlot(f, g, i) ==
    {k \in DOMAIN preview.assignments :
        /\ preview.assignments[k].familyId = f
        /\ preview.assignments[k].gpIndex = g
        /\ preview.assignments[k].familyIndex = i}

\* C1: in every preview, no student identifier appears in more than one
\* Assignment, across all slots and all families of the run.
C1_NoDuplicateStudentInPreview == NoRepeat(AssignedStudents)

\* C1 witness: a preview assigns children to two families, and the student
\* given to the first is not a member of the second, so only the record of
\* the run keeps that student out of the second family's pool.
C1_TwoFamiliesServed ==
    \E j, k \in DOMAIN preview.assignments :
        /\ j < k
        /\ preview.assignments[j].familyId # preview.assignments[k].familyId
        /\ preview.assignments[j].studentId
              \notin studentsInThisFamilyDoc(families[preview.assignments[k].familyId])

\* C5: for every Assignment of a preview whose target family has
\* allowOtherBatches = false, the assigned student's batch equals the batch
\* of that family document.
C5_BatchOfFamilyRespected ==
    \A k \in DOMAIN preview.assignments :
        LET a == preview.assignments[k] IN
        ~families[a.familyId].allowOtherBatches
            => students[a.studentId].batch = families[a.familyId].batch

\* C6: for every slot, the number of Assignments of one preview that target
\* it is at most max(0, maxChildrenPerFamily - existing children of the slot).
C6_CapacityRespected ==
    preview.status = 200 =>
        \A f \in DOMAIN families :
            \A g \in DOMAIN families[f].grandParents :
                \A i \in DOMAIN families[f].grandParents[g].families :
                    Cardinality(AssignmentsOfSlot(f, g, i))
                        <= Max(0, preview.configuration.maxChildrenPerFamily
                                  - Len(families[f].grandParents[g].families[i].children))

\* C6 witness: a slot that already holds a child is filled up to its
\* capacity while students of the batch remain unassigned.
C6_SlotFilled ==
    /\ preview.status = 200
    /\ \E f \in DOMAIN families :
          \E g \in DOMAIN families[f].grandParents :
             \E i \in DOMAIN families[f].grandParents[g].families :
                LET existing == Len(families[f].grandParents[g].families[i].children) IN
                /\ existing > 0
                /\ preview.configuration.maxChildrenPerFamily > existing
                /\ Cardinality(AssignmentsOfSlot(f, g, i))
                      = preview.configuration.maxChildrenPerFamily - existing
    /\ Len(preview.assignments)
          < Len(allStudentsInBatch(preview.configuration.targetBatch))

\* C7: in heterogeneous mode, the diversityScore carried by every Assignment
\* of a preview is strictly greater than 0 (scores in hundredths).
C7_DiversityScorePositive ==
    (preview.status = 200 /\ preview.configuration.mode = "heterogeneous") =>
        \A k \in DOMAIN preview.assignments :
            preview.assignments[k].diversityScore > 0

\* whether two students share the region, the coarsest address level
SameRegion(father, mother) ==
    father.region # "" /\ mother.region # "" /\ father.region = mother.region

\* C8: in homogeneous mode, every Assignment of a preview has a non-empty
\* addressMatch, and none targets a slot whose father and mother share no
\* address level, not even the region.
C8_HomogeneousMatch ==
    (preview.status = 200 /\ preview.configuration.mode = "homogeneous") =>
        \A k \in DOMAIN preview.assignments :
            LET a == preview.assignments[k]
                m == families[a.familyId].grandParents[a.gpIndex].families[a.familyIndex]
            IN /\ a.addressMatch # <<>>
               /\ SameRegion(students[m.father], students[m.mother])

\* C8 witness: a homogeneous preview assigns a child while the collection
\* holds a pair with room whose parents share no address level.
C8_HomogeneousAssigned ==
    /\ preview.status = 200
    /\ preview.configuration.mode = "homogeneous"
    /\ preview.assignments # <<>>
    /\ \E f \in DOMAIN families :
          \E g \in DOMAIN families[f].grandParents :
             \E i \in DOMAIN families[f].grandParents[g].families :
                LET m == families[f].grandParents[g].families[i] IN
                /\ ~SameRegion(students[m.father], students[m.mother])
                /\ Len(m.children) < preview.configuration.maxChildrenPerFamily
                /\ PairListed(preview.configuration, families, f, g, i)

\* C9: autoAssignChildren never changes persistent state: whatever the
\* input and the outcome, the Family and Student collections are the same
\* after the call as before it.
C9_PreviewReadOnly == [][families' = families /\ students' = students]_vars

\* C9 witness: a preview on a stored collection has been answered with
\* proposed children.
C9_PreviewAnswered ==
    /\ preview.status = 200
    /\ preview.assignments # <<>>
    /\ families # <<>>

----------------------------------------------------------------------------
(* Properties of the commit and of the Family collection *)

\* the step is taken by the executeAutoAssignChildren call of slot p: the
\* call moves on to its next assignment or ends
StepOfCommit(p) ==
    /\ InTransaction(req[p])
    /\ IF InTransaction(req'[p]) THEN req'[p].next # req[p].next ELSE TRUE

\* the student holds some role in the document
InAnyRole(fam, s) ==
    \/ s \in {fam.familyLeader, fam.familyCoLeader, fam.familySecretary}
    \/ \E g \in DOMAIN fam.grandParents :
          \/ s \in {fam.grandParents[g].grandFather, fam.grandParents[g].grandMother}
          \/ \E i \in DOMAIN fam.grandParents[g].families :
                \/ s \in {fam.grandParents[g].families[i].father,
                          fam.grandParents[g].families[i].mother}
                \/ \E c \in DOMAIN fam.grandParents[g].families[i].children :
                      fam.grandParents[g].families[i].children[c].student = s

\* how many times the student occurs in the document
Occurrences(fam, s) ==
    Cardinality({k \in DOMAIN MemberList(fam) : MemberList(fam)[k] = s})

\* C2: if an assignment of the list passed to executeAutoAssignChildren
\* fails, none of the list's child entries is persisted.  No step of a call
\* before its commitTransaction, the failing step included, changes a stored
\* family document, also not the documents of the assignments processed
\* before the failing one.
C2_CommitAtomic ==
    [][\A p \in Reqs :
          (StepOfCommit(p) /\ req[p].next <= Len(req[p].assignments))
              => families' = families]_vars

\* C2 witness: a call has processed its first assignment and its next
\* assignment, for another family, names a student who is in that family.
C2_FailureAfterPush ==
    \E p \in Reqs :
        /\ InTransaction(req[p])
        /\ req[p].next > 1
        /\ req[p].next <= Len(req[p].assignments)
        /\ LET a == req[p].assignments[req[p].next] IN
           /\ a.familyId \notin req[p].written
           /\ InAnyRole(req[p].view[a.familyId], a.studentId)

\* C3: executeAutoAssignChildren re-reads each target family and, when the
\* student of the assignment holds any role in the document it reads
\* (leader, co-leader, secretary, grand father, grand mother, father, mother
\* or child), rejects the whole call with the conflict that names the
\* student and the family, and leaves the stored documents unchanged.
C3_CommitRejectsMember ==
    [][\A p \in Reqs :
          (/\ StepOfCommit(p)
           /\ req[p].next <= Len(req[p].assignments)
           /\ LET a == req[p].assignments[req[p].next] IN
              /\ a.familyId \in DOMAIN SessionView(req[p])
              /\ InAnyRole(SessionView(req[p])[a.familyId], a.studentId))
          => LET a == req[p].assignments[req[p].next] IN
             /\ response' = ConflictResponse(a.studentId,
                                SessionView(req[p])[a.familyId].title)
             /\ req'[p] = Idle
             /\ families' = families]_vars

\* C3 witness: a call was rejected with the conflict that names a student
\* who had become a grand mother of the target family after the preview.
C3_GrandMotherRejected ==
    /\ response.status = 500
    /\ "studentId" \in DOMAIN response
    /\ \E f \in DOMAIN families :
          /\ families[f].title = response.familyTitle
          /\ \E g \in DOMAIN families[f].grandParents :
                families[f].grandParents[g].grandMother = response.studentId
          /\ \E k \in DOMAIN preview.assignments :
                /\ preview.assignments[k].familyId = f
                /\ preview.assignments[k].studentId = response.studentId

\* C4: in every reachable state, under any interleaving of createFamily,
\* updateFamily, addChildrenToFamily and executeAutoAssignChildren, no
\* student identifier appears more than once within a Family document.
C4_NoStudentTwiceInFamily ==
    \A f \in DOMAIN families : NoRepeat(MemberList(families[f]))

\* C10: two concurrent executeAutoAssignChildren calls that assign the same
\* student to the same family are serialized.  A call commits only if none
\* of its students has meanwhile been stored in the target family, and its
\* commit leaves each of them in that family exactly once; so once one call
\* has committed the other cannot.
C10_CommitsSerialized ==
    [][\A p \in Reqs :
          (StepOfCommit(p) /\ req[p].next > Len(req[p].assignments))
              => \A k \in DOMAIN req[p].assignments :
                    LET a == req[p].assignments[k] IN
                    /\ ~InAnyRole(families[a.familyId], a.studentId)
                    /\ Occurrences(families'[a.familyId], a.studentId) = 1]_vars

\* C10 witness: two calls are in progress with the same student for the
\* same family; one has pushed the child entry in its transaction, the other
\* has started its transaction and has the assignment still to process.
C10_TwoCommitsOverlap ==
    \E p, q \in Reqs :
        /\ p # q
        /\ InTransaction(req[p]) /\ InTransaction(req[q])
        /\ req[p].next > 1
        /\ \E k \in DOMAIN req[p].assignments, j \in DOMAIN req[q].assignments :
              /\ k >= req[p].next
              /\ j < req[q].next
              /\ req[p].assignments[k].studentId = req[q].assignments[j].studentId
              /\ req[p].assignments[k].familyId = req[q].assignments[j].familyId

----------------------------------------------------------------------------
(* Commits against data that vanishes between preview and commit *)

\* deleteStudent: Student.findByIdAndDelete(id)
deleteStudent(id) ==
    /\ id \in DOMAIN students
    /\ students' = [k \in DOMAIN students \ {id} |-> students[k]]
    /\ UNCHANGED <<families, preview, response, req, wallets, transactions>>

\* deleteFamily: Family.findByIdAndDelete(id), outside any transaction; it
\* waits for an open transaction that wrote the document
deleteFamily(id) ==
    /\ id \in DOMAIN families
    /\ id \notin LockedByOther(0)
    /\ families' = [f \in DOMAIN families \ {id} |-> families[f]]
    /\ req' = MarkStale(req, 0, {id})
    /\ UNCHANGED <<students, preview, response, wallets, transactions>>

\* the stored collections of the commits: families A and E, or family C
CommitCollections ==
    {<<NewFamily(BodyA(<<>>)), NewFamily(BodyE)>>, <<NewFamily(BodyC)>>}

\* the operator holds the preview computed on the stored families
InitCommit ==
    /\ students = SeedStudents
    /\ families \in CommitCollections
    /\ \E cfg \in OperatorConfigurations : preview = PreviewResponse(cfg, families)
    /\ response = Response(0, "")
    /\ req = [p \in Reqs |-> Idle]
    /\ wallets = <<>>
    /\ transactions = <<>>

NextCommit ==
    \/ \E k \in DOMAIN preview.assignments :
          deleteStudent(preview.assignments[k].studentId)
    \/ \E id \in DOMAIN families : deleteFamily(id)
    \/ \E p \in Reqs : \E list \in SubLists(preview.assignments) : executeBegin(p, list)
    \/ \E p \in Reqs : executeStep(p)
    \/ \E p \in Reqs : executeCommit(p)

SpecCommit == InitCommit /\ [][NextCommit]_vars

\* the answers that report a vanished family or student
NotFoundResponses ==
    {Response(500, "Family not found"), Response(500, "Student not found")}

\* C11: a commit whose assignment references a family or a student that no
\* longer exists at commit time fails with a not-found outcome, distinct
\* from the conflict outcome, and persists nothing.
C11_VanishedIsNotFound ==
    [][\A p \in Reqs :
          (/\ StepOfCommit(p)
           /\ req[p].next <= Len(req[p].assignments)
           /\ LET a == req[p].assignments[req[p].next] IN
              \/ a.familyId \notin DOMAIN SessionView(req[p])
              \/ a.studentId \notin StudentIds)
          => /\ response' \in NotFoundResponses
             /\ req'[p] = Idle
             /\ families' = families]_vars

----------------------------------------------------------------------------
(* Properties of the preview's outcomes *)

\* the request of the last preview misses its preconditions: mode or target
\* batch missing, mode unknown, no active student in the target batch, no
\* family returned by the query, or no slot left by the filters
PreconditionsUnmet ==
    LET cfg == preview.configuration IN
    \/ cfg.mode = "" \/ cfg.targetBatch = ""
    \/ cfg.mode \notin {"homogeneous", "heterogeneous"}
    \/ ~\E k \in StudentIds : students[k].batch = cfg.targetBatch /\ students[k].isActive
    \/ \A f \in DOMAIN families : ~EligibleQuery(families[f])
    \/ eligibleFamilyAssignments(cfg, families) = <<>>

\* C12: with mode or targetBatch missing, an unknown mode, a target batch
\* without active students or no eligible family, autoAssignChildren answers
\* with status 400 and no assignment list, never with a 500.
C12_ValidationErrors ==
    (preview # NoPreview /\ PreconditionsUnmet) =>
        /\ preview.status = 400
        /\ preview.assignments = <<>>

\* C12 witness: a well-formed request for a batch without students, on a
\* collection that holds a family the query returns, was answered with 400.
C12_EmptyBatchRefused ==
    /\ preview.status = 400
    /\ preview.configuration.mode \in {"homogeneous", "heterogeneous"}
    /\ preview.configuration.targetBatch = "B3"
    /\ \E f \in DOMAIN families : EligibleQuery(families[f])

\* C13: whenever a slot ends a preview with fewer assignments than its
\* capacity because no eligible candidate remained for it, failedAssignments
\* holds a failure entry for it (the entry names the family of the slot).
C13_ShortSlotHasFailureEntry ==
    preview.status = 200 =>
        LET slots == eligibleFamilyAssignments(preview.configuration, families) IN
        \A k \in DOMAIN slots :
            Cardinality(AssignmentsOfSlot(slots[k].familyId, slots[k].gpIndex,
                                          slots[k].familyIndex)) < slots[k].capacity
            => \E e \in DOMAIN preview.failedAssignments :
                  preview.failedAssignments[e].familyId = slots[k].familyId

\* the sum of the capacities of the slots from index k on
RECURSIVE SumOfCapacities(_, _)
SumOfCapacities(slots, k) ==
    IF k > Len(slots) THEN 0 ELSE slots[k].capacity + SumOfCapacities(slots, k + 1)

\* C15: in every successful preview, statistics.totalAssigned is the number
\* of assignments returned, statistics.uniqueStudentsAssigned equals
\* statistics.totalAssigned, and the number of assignments is at most the
\* sum of the capacities of the eligible slots.
C15_StatisticsConsistent ==
    preview.status = 200 =>
        /\ preview.statistics.totalAssigned = Len(preview.assignments)
        /\ preview.statistics.uniqueStudentsAssigned = preview.statistics.totalAssigned
        /\ Len(preview.assignments)
              <= SumOfCapacities(
                     eligibleFamilyAssignments(preview.configuration, families), 1)

\* C15 witness: a successful preview gave two children to one family, so
\* students and families are counted apart.
C15_TwoChildrenOneFamily ==
    /\ preview.status = 200
    /\ preview.statistics.totalAssigned >= 2
    /\ preview.statistics.totalFamiliesAffected < preview.statistics.totalAssigned

\* the number of passes of the while loop body, over all slots, of the
\* preview of cfg on the stored collection
LoopPasses(cfg) ==
    MainLoop(cfg, eligibleFamilyAssignments(cfg, families),
             allStudentsInBatch(cfg.targetBatch), 1,
             [assignments |-> <<>>, failedAssignments |-> <<>>,
              newlyAssignedStudentIds |-> {}, passes |-> 0]).passes

\* C16: the allocation loop of autoAssignChildren terminates with an answer,
\* and its candidate-selection passes, over all slots, number at most the
\* number of eligible slots times maxChildrenPerFamily.
C16_LoopBounded ==
    preview # NoPreview =>
        /\ preview.status \in {200, 400}
        /\ preview.status = 200 =>
              LoopPasses(preview.configuration)
                  <= Len(eligibleFamilyAssignments(preview.configuration, families))
                     * preview.configuration.maxChildrenPerFamily

\* C16 witness: a preview in which one slot ended on a pass that found no
\* candidate and the passes reached the bound.
C16_BoundReached ==
    /\ preview.status = 200
    /\ preview.failedAssignments # <<>>
    /\ preview.assignments # <<>>
    /\ LoopPasses(preview.configuration)
          = Len(eligibleFamilyAssignments(preview.configuration, families))
            * preview.configuration.maxChildrenPerFamily

\* C17: no Assignment of a preview names a student who is already a leader,
\* co-leader, secretary, grand father, grand mother, father, mother or child
\* of the target family.
C17_PoolExcludesFamilyMembers ==
    \A k \in DOMAIN preview.assignments :
        ~InAnyRole(families[preview.assignments[k].familyId],
                   preview.assignments[k].studentId)

\* the slot an Assignment of the last preview targets
SlotOfAssignment(a) ==
    LET slots == eligibleFamilyAssignments(preview.configuration, families) IN
    slots[CHOOSE k \in DOMAIN slots :
              /\ slots[k].familyId = a.familyId
              /\ slots[k].gpIndex = a.gpIndex
              /\ slots[k].familyIndex = a.familyIndex]

\* the gender statistics of a slot after the first n Assignments of the
\* last preview
StatsAfter(fa, n) ==
    LET given(rel) == Cardinality({j \in AssignmentsOfSlot(fa.familyId, fa.gpIndex,
                                                           fa.familyIndex) :
                                      j <= n /\ preview.assignments[j].relationship = rel})
    IN [sons |-> fa.genderStats.sons + given("son"),
        daughters |-> fa.genderStats.daughters + given("daughter")]

\* the candidates of a slot after the first n Assignments: students of the
\* slot's pool, unclaimed, who pass the hard filters and have a mode score
CandidatesAfter(fa, n) ==
    LET cfg == preview.configuration IN
    {s \in Range(allStudentsInBatch(cfg.targetBatch)) :
        /\ s \notin fa.studentsInThisFamilyDoc
        /\ s \notin {preview.assignments[j].studentId : j \in 1..n}
        /\ PassesFilters(cfg, fa, StatsAfter(fa, n), students[s])
        /\ ModeScore(cfg, fa, students[s]).score # 0}

\* final rank score, in hundredths: mode score plus tie-break addend
RankAfter(fa, n, s) ==
    ModeScore(preview.configuration, fa, students[s]).score * 100
        + TieBreaker(preview.configuration, StatsAfter(fa, n), students[s])

\* C18: in each candidate-selection pass for a slot with remaining capacity,
\* if an unclaimed candidate passes the hard filters and has a mode score,
\* an Assignment is created for the candidate with the strictly highest
\* final rank score, the first in input order on exact ties.  So every
\* Assignment names the best candidate of its moment, and a slot that ends
\* below its capacity has no candidate left.
C18_BestCandidateAssigned ==
    preview.status = 200 =>
        /\ \A k \in DOMAIN preview.assignments :
              LET a == preview.assignments[k]
                  fa == SlotOfAssignment(a)
              IN /\ a.studentId \in CandidatesAfter(fa, k - 1)
                 /\ \A s \in CandidatesAfter(fa, k - 1) :
                       \/ RankAfter(fa, k - 1, s) < RankAfter(fa, k - 1, a.studentId)
                       \/ /\ RankAfter(fa, k - 1, s) = RankAfter(fa, k - 1, a.studentId)
                          /\ s >= a.studentId
        /\ LET slots == eligibleFamilyAssignments(preview.configuration, families) IN
           \A i \in DOMAIN slots :
              LET last == IF AssignmentsOfSlot(slots[i].familyId, slots[i].gpIndex,
                                               slots[i].familyIndex) = {}
                          THEN 0
                          ELSE CHOOSE j \in AssignmentsOfSlot(slots[i].familyId,
                                           slots[i].gpIndex, slots[i].familyIndex) :
                                  \A h \in AssignmentsOfSlot(slots[i].familyId,
                                           slots[i].gpIndex, slots[i].familyIndex) : h <= j
              IN Cardinality(AssignmentsOfSlot(slots[i].familyId, slots[i].gpIndex,
                                               slots[i].familyIndex)) < slots[i].capacity
                 => \A s \in CandidatesAfter(slots[i], last) :
                       s \in {preview.assignments[j].studentId :
                                 j \in DOMAIN preview.assignments}

\* the diversity score with "differs from both parents" at every level
DiversityOfBoth(child, father, mother) ==
    IF child.region # father.region /\ child.region # mother.region THEN 4
    ELSE IF child.zone # father.zone /\ child.zone # mother.zone THEN 3
    ELSE IF child.wereda # father.wereda /\ child.wereda # mother.wereda THEN 2
    ELSE IF child.kebele # father.kebele /\ child.kebele # mother.kebele THEN 1
    ELSE 0

\* C19: in heterogeneous mode the diversity score of a candidate is 4 if
\* its region differs from both parents' regions, else 3 if its zone
\* differs from both, else 2 if its wereda differs from both, else 1 if
\* its kebele differs from both, else 0, and a candidate with score 0 is
\* never assigned.  So every heterogeneous Assignment carries that score
\* (plus the tie-break addend of its pass), and that score is not 0.
C19_DiversityOfBothParents ==
    (preview.status = 200 /\ preview.configuration.mode = "heterogeneous") =>
        \A k \in DOMAIN preview.assignments :
            LET a == preview.assignments[k]
                fa == SlotOfAssignment(a)
                score == DiversityOfBoth(students[a.studentId], fa.father, fa.mother)
            IN /\ score # 0
               /\ a.diversityScore
                     = score * 100 + TieBreaker(preview.configuration,
                                                StatsAfter(fa, k - 1),
                                                students[a.studentId])

\* the coarser levels of a slot at which a candidate has the parents' value
CoarserMatches(fa, student) ==
    {k \in DOMAIN Levels :
        /\ k > IndexOfLevel(fa.commonAddressLevel)
        /\ student[Levels[k]] # ""
        /\ student[Levels[k]] = fa.father[Levels[k]]
        /\ student[Levels[k]] = fa.mother[Levels[k]]}

\* the finest of the coarser levels that match
FirstCoarserMatch(fa, student) ==
    CHOOSE k \in CoarserMatches(fa, student) :
        \A h \in CoarserMatches(fa, student) : k <= h

\* whether the candidate has the slot's common value at the slot's level
ExactMatch(fa, student) ==
    /\ student[fa.commonAddressLevel] # ""
    /\ student[fa.commonAddressLevel] = fa.commonAddressValue

\* 100 on an exact match, else 50 - 10 * stepsCoarser with stepsCoarser the
\* number of levels from the slot's level to the matched level, else 0
ScoreBySteps(fa, student) ==
    IF ExactMatch(fa, student) THEN 100
    ELSE IF CoarserMatches(fa, student) = {} THEN 0
    ELSE 50 - 10 * (FirstCoarserMatch(fa, student)
                        - IndexOfLevel(fa.commonAddressLevel))

\* 100 on an exact match, else 50 - 10 * j with j the matched level's
\* position in kebele, wereda, zone, region counted from 0, else 0
ScoreByPosition(fa, student) ==
    IF ExactMatch(fa, student) THEN 100
    ELSE IF CoarserMatches(fa, student) = {} THEN 0
    ELSE 50 - 10 * (FirstCoarserMatch(fa, student) - 1)

\* the slots and the pool of the last preview, when it was homogeneous
HomogeneousSlots ==
    IF preview.status = 200 /\ preview.configuration.mode = "homogeneous"
    THEN Range(eligibleFamilyAssignments(preview.configuration, families))
    ELSE {}

\* C20 (as stated): in homogeneous mode a candidate with the slot's common
\* value at the slot's level scores 100; otherwise the first matching
\* coarser level scores 50 - 10 x stepsCoarser, stepsCoarser being the
\* number of levels between the slot's level and the matched level; a
\* candidate matching at no level has no score and is never assigned.
C20_ScoreByStepsCoarser ==
    \A fa \in HomogeneousSlots :
        /\ \A s \in Range(allStudentsInBatch(preview.configuration.targetBatch)) :
              ModeScore(preview.configuration, fa, students[s]).score
                  = ScoreBySteps(fa, students[s])
        /\ \A k \in AssignmentsOfSlot(fa.familyId, fa.gpIndex, fa.familyIndex) :
              ScoreBySteps(fa, students[preview.assignments[k].studentId]) # 0

\* C20: in homogeneous mode a candidate with the slot's common value at the
\* slot's level scores 100; otherwise the first matching coarser level
\* scores 50 - 10 x j, j being the position of the matched level in kebele,
\* wereda, zone, region counted from 0 (wereda 40, zone 30, region 20)
\* whatever the slot's level; a candidate matching at no level has no score
\* and is never assigned, and an Assignment names the level that matched.
C20_ScoreByLevelPosition ==
    \A fa \in HomogeneousSlots :
        /\ \A s \in Range(allStudentsInBatch(preview.configuration.targetBatch)) :
              ModeScore(preview.configuration, fa, students[s]).score
                  = ScoreByPosition(fa, students[s])
        /\ \A k \in AssignmentsOfSlot(fa.familyId, fa.gpIndex, fa.familyIndex) :
              LET student == students[preview.assignments[k].studentId] IN
              /\ ScoreByPosition(fa, student) # 0
              /\ preview.assignments[k].addressMatch[2]
                    = IF ExactMatch(fa, student) THEN fa.commonAddressLevel
                      ELSE Levels[FirstCoarserMatch(fa, student)]

\* a homogeneous preview gave a slot whose level is not kebele a student
\* matched at a coarser level than the slot's
C20_CoarserLevelMatched ==
    \E fa \in HomogeneousSlots :
        /\ fa.commonAddressLevel # "kebele"
        /\ \E k \in AssignmentsOfSlot(fa.familyId, fa.gpIndex, fa.familyIndex) :
              /\ ~ExactMatch(fa, students[preview.assignments[k].studentId])
              /\ preview.assignments[k].addressMatch[2] # fa.commonAddressLevel

\* the conditions under which a pair of parents is said to be a slot of the
\* allocator
SlotConditions(cfg, fam, g, i) ==
    LET m == fam.grandParents[g].families[i] IN
    /\ m.father \in StudentIds
    /\ m.mother \in StudentIds
    /\ \/ fam.allowOtherBatches
       \/ /\ students[m.father].batch = cfg.targetBatch
          /\ students[m.mother].batch = cfg.targetBatch
    /\ cfg.maxChildrenPerFamily - Len(m.children) > 0
    /\ cfg.mode = "homogeneous" =>
          /\ students[m.father].region # ""
          /\ students[m.father].region = students[m.mother].region

\* the (family, grand parent, pair) triples the main loop of the last
\* preview went through
ProcessedSlots ==
    {<<fa.familyId, fa.gpIndex, fa.familyIndex>> :
        fa \in Range(eligibleFamilyAssignments(preview.configuration, families))}

\* C21: a slot (family, grand parent index, pair index) is processed by the
\* allocator if and only if father and mother both resolve to students, the
\* family allows other batches or both parents belong to the target batch,
\* the remaining capacity is above 0 and, in homogeneous mode only, father
\* and mother share at least the region.
C21_SlotProcessedIffEligible ==
    preview.status = 200 =>
        \A f \in DOMAIN families :
            \A g \in DOMAIN families[f].grandParents :
                \A i \in DOMAIN families[f].grandParents[g].families :
                    <<f, g, i>> \in ProcessedSlots
                        <=> SlotConditions(preview.configuration, families[f], g, i)

----------------------------------------------------------------------------
(* previews over families whose pairs already hold children *)

\* the largest maxChildrenPerFamily asked for in these previews
MaxCapFilled == 3

\* a family of two pairs with two children each: a son and a daughter for
\* the first pair, two sons for the second
BodyH ==
    [title |-> "H", batch |-> "B1", allowOtherBatches |-> TRUE,
     familyLeader |-> 11, familyCoLeader |-> 12, familySecretary |-> 13,
     grandParents |-> <<GrandParent(14, 0,
         <<FamilyMember(3, 4, <<Child(5, "son", 1), Child(6, "daughter", 2)>>),
           FamilyMember(1, 2, <<Child(7, "son", 1), Child(9, "son", 2)>>)>>)>>]

FilledDocuments ==
    {NewFamily(body) :
        body \in {b \in {BodyH, BodyC, BodyE} : CreateError(b) = ""}}

FilledCollections ==
    UNION {{c \in [1..n -> FilledDocuments] :
               \A i, j \in 1..n : c[i].title = c[j].title => i = j}
           : n \in 1..MaxFamilies}

FilledConfigurations ==
    [mode : Modes, targetBatch : TargetBatches,
     maxChildrenPerFamily : 1..MaxCapFilled,
     considerGenderBalance : BOOLEAN, considerAge : BOOLEAN]

InitFilled ==
    /\ students = SeedStudents
    /\ families \in FilledCollections
    /\ preview = NoPreview
    /\ response = Response(0, "")
    /\ req = [p \in Reqs |-> Idle]
    /\ wallets = <<>>
    /\ transactions = <<>>

NextFilled == \E cfg \in FilledConfigurations : autoAssignChildren(cfg)

SpecFilled == InitFilled /\ [][NextFilled]_vars

\* whether slot a comes before slot b in the order of priority: fewer
\* existing children, or as many and a larger |sons - daughters|
Precedes(a, b) ==
    LET ma == families[a[1]].grandParents[a[2]].families[a[3]].children
        mb == families[b[1]].grandParents[b[2]].families[b[3]].children
        imbalance(children) ==
            Abs(CountRel(children, "son") - CountRel(children, "daughter"))
    IN \/ Len(ma) < Len(mb)
       \/ Len(ma) = Len(mb) /\ imbalance(ma) >= imbalance(mb)

\* the slot of the k-th Assignment of the last preview
SlotAt(k) ==
    <<preview.assignments[k].familyId, preview.assignments[k].gpIndex,
      preview.assignments[k].familyIndex>>

\* C22: slots are processed in ascending order of their existing children
\* count and, among equal counts, in descending order of |sons - daughters|
\* of the existing children; the order is fixed before the first assignment
\* and the assignments of the run do not change it.  So the Assignments of a
\* slot are consecutive in the list, and an Assignment of another slot
\* comes later only if the earlier slot precedes it by the stored children.
C22_SlotsInPriorityOrder ==
    preview.status = 200 =>
        \A k, l \in DOMAIN preview.assignments :
            k < l =>
                /\ SlotAt(k) # SlotAt(l) => Precedes(SlotAt(k), SlotAt(l))
                /\ SlotAt(k) = SlotAt(l) =>
                      \A h \in k..l : SlotAt(h) = SlotAt(k)

\* two slots of a family with as many children were each given a child,
\* the one later in the document first
C22_ImbalancedSlotFirst ==
    /\ preview.status = 200
    /\ \E k, l \in DOMAIN preview.assignments :
          /\ k < l
          /\ preview.assignments[k].familyId = preview.assignments[l].familyId
          /\ preview.assignments[k].gpIndex = preview.assignments[l].gpIndex
          /\ preview.assignments[k].familyIndex > preview.assignments[l].familyIndex
          /\ LET fam == families[preview.assignments[k].familyId]
                 gp == fam.grandParents[preview.assignments[k].gpIndex]
             IN Len(gp.families[preview.assignments[k].familyIndex].children)
                  = Len(gp.families[preview.assignments[l].familyIndex].children)

\* |sons - daughters| of gender statistics
Imbalance(genderStats) == Abs(genderStats.sons - genderStats.daughters)

\* C23: with considerGenderBalance enabled, every Assignment made to a slot
\* whose running sons and daughters counts differ has the minority gender
\* (a daughter when sons > daughters, a son when daughters > sons), the
\* running counts being those of the stored children plus the Assignments
\* made earlier in the run; hence the slot's |sons - daughters| after the
\* run is at most max(1, its value before the run).
C23_MinorityGenderAssigned ==
    (preview.status = 200 /\ preview.configuration.considerGenderBalance) =>
        \A k \in DOMAIN preview.assignments :
            LET a == preview.assignments[k]
                fa == SlotOfAssignment(a)
                running == StatsAfter(fa, k - 1)
            IN /\ running.sons > running.daughters =>
                    /\ a.relationship = "daughter"
                    /\ students[a.studentId].gender = "female"
               /\ running.daughters > running.sons =>
                    /\ a.relationship = "son"
                    /\ students[a.studentId].gender = "male"
               /\ Imbalance(StatsAfter(fa, Len(preview.assignments)))
                     <= Max(1, Imbalance(fa.genderStats))

\* with considerGenderBalance, a slot was given a child of the minority
\* gender after an Assignment of the same run had changed its counts
C23_SecondChildOfMinority ==
    /\ preview.status = 200
    /\ preview.configuration.considerGenderBalance
    /\ \E k \in DOMAIN preview.assignments :
          LET fa == SlotOfAssignment(preview.assignments[k])
              running == StatsAfter(fa, k - 1)
          IN /\ running # fa.genderStats
             /\ running.sons # running.daughters

\* whether the birth dates of candidate, father and mother are all known
DatesKnown(child, father, mother) ==
    child.dateOfBirth # 0 /\ father.dateOfBirth # 0 /\ mother.dateOfBirth # 0

\* whether the candidate is more than 5 years older than the older parent
TooOld(child, father, mother) ==
    Age(child) > Max(Age(father), Age(mother)) + 5

\* the students of the pool a slot left unclaimed although only their age
\* stood against them
LeftForAge(fa) ==
    LET cfg == preview.configuration
        n == Len(preview.assignments)
    IN {s \in Range(allStudentsInBatch(cfg.targetBatch)) :
           /\ s \notin fa.studentsInThisFamilyDoc
           /\ s \notin {preview.assignments[j].studentId : j \in 1..n}
           /\ PassesFilters([cfg EXCEPT !.considerAge = FALSE], fa,
                            StatsAfter(fa, n), students[s])
           /\ ModeScore(cfg, fa, students[s]).score # 0
           /\ DatesKnown(students[s], fa.father, fa.mother)
           /\ TooOld(students[s], fa.father, fa.mother)}

\* C24: with considerAge enabled and the birth dates of candidate, father
\* and mother all known, no Assignment binds a candidate whose age exceeds
\* max(father age, mother age) + 5 years; when one of the three birth
\* dates is unknown the age filter does not exclude the candidate from
\* the slot.
C24_AgeFilter ==
    (preview.status = 200 /\ preview.configuration.considerAge) =>
        /\ \A k \in DOMAIN preview.assignments :
              LET a == preview.assignments[k]
                  fa == SlotOfAssignment(a)
              IN DatesKnown(students[a.studentId], fa.father, fa.mother)
                    => ~TooOld(students[a.studentId], fa.father, fa.mother)
        /\ \A fa \in Range(eligibleFamilyAssignments(preview.configuration, families)) :
              \A s \in Range(allStudentsInBatch(preview.configuration.targetBatch)) :
                 ~DatesKnown(students[s], fa.father, fa.mother) =>
                    \A n \in 0..Len(preview.assignments) :
                       PassesFilters(preview.configuration, fa,
                                     StatsAfter(fa, n), students[s])
                         = PassesFilters([preview.configuration
                                             EXCEPT !.considerAge = FALSE],
                                         fa, StatsAfter(fa, n), students[s])

\* with considerAge, a slot ended below its capacity and left a student
\* whom only the age kept out, and a student without a birth date was
\* assigned
C24_OldCandidateLeft ==
    /\ preview.status = 200
    /\ preview.configuration.considerAge
    /\ \E fa \in Range(eligibleFamilyAssignments(preview.configuration, families)) :
          /\ Cardinality(AssignmentsOfSlot(fa.familyId, fa.gpIndex, fa.familyIndex))
                < fa.capacity
          /\ LeftForAge(fa) # {}
    /\ \E k \in DOMAIN preview.assignments :
          students[preview.assignments[k].studentId].dateOfBirth = 0

\* the collection with one child entry appended per assignment of the
\* list, in list order, to the slot the assignment designates
RECURSIVE Appended(_, _)
Appended(fams, list) ==
    IF list = <<>> THEN fams
    ELSE LET a == Head(list) IN
         Appended([fams EXCEPT
                      ![a.familyId].grandParents[a.gpIndex]
                          .families[a.familyIndex].children =
                              Append(@, [student |-> a.studentId,
                                         relationship |-> a.relationship,
                                         birthOrder |-> a.birthOrder])],
                  Tail(list))

\* the step with which the call of p ends in success
CommitOf(p) ==
    /\ InTransaction(req[p])
    /\ req[p].next > Len(req[p].assignments)
    /\ ~InTransaction(req'[p])
    /\ response'.status = 200

\* C25: a successful executeAutoAssignChildren appends, for each assignment
\* of the list and in list order, exactly one child entry (student,
\* relationship, birth order) to the children of the slot designated by
\* (familyId, gpIndex, familyIndex) and changes nothing else: the stored
\* collection after the commit is the collection before it with these
\* entries appended, whatever other requests stored in between.
C25_CommitAppendsOnly ==
    [][\A p \in Reqs :
          CommitOf(p) => /\ families' = Appended(families, req[p].assignments)
                         /\ students' = students]_vars

\* a call that stored two child entries has ended in success
C25_TwoChildrenStored ==
    /\ response.status = 200
    /\ "assigned" \in DOMAIN response
    /\ response.assigned = 2

\* the child entry of the assignment is stored in the slot it designates
Stored(a) ==
    /\ a.familyId \in DOMAIN families
    /\ \E c \in DOMAIN families[a.familyId].grandParents[a.gpIndex]
                      .families[a.familyIndex].children :
          families[a.familyId].grandParents[a.gpIndex]
              .families[a.familyIndex].children[c]
            = [student |-> a.studentId, relationship |-> a.relationship,
               birthOrder |-> a.birthOrder]

\* the call of p is about to read its first family and its whole list is
\* stored already
Recommit(p) ==
    /\ InTransaction(req[p])
    /\ req[p].next = 1
    /\ \A k \in DOMAIN req[p].assignments : Stored(req[p].assignments[k])

\* C26: committing the same assignment list a second time after it was
\* committed successfully fails with the conflict (naming the first
\* student of the list and the family) and leaves storage unchanged; no
\* student is added twice to a family by repeated commits of a preview.
C26_RecommitConflicts ==
    /\ [](\A f \in DOMAIN families : NoRepeat(MemberList(families[f])))
    /\ [][\A p \in Reqs :
            (Recommit(p) /\ StepOfCommit(p)) =>
                /\ response' = ConflictResponse(
                                   req[p].assignments[1].studentId,
                                   families[req[p].assignments[1].familyId].title)
                /\ families' = families
                /\ ~InTransaction(req'[p])]_vars

\* a list of two assignments was stored and its second commit was answered
\* with the conflict
C26_SecondCommitRefused ==
    /\ response.status = 500
    /\ response.message = "Student is already in family"
    /\ \A k \in DOMAIN preview.assignments : Stored(preview.assignments[k])
    /\ Len(preview.assignments) = 2

\* no Family or Student document has changed since the preview was
\* computed: the commits only add children and the deletions only remove
\* documents, so the data still is what the preview was computed on
NothingChanged ==
    /\ students = SeedStudents
    /\ families \in CommitCollections

\* C27: if no Family or Student document changes between a preview and the
\* commit, committing the complete, unfiltered assignment list of that
\* preview succeeds (no conflict, no not-found) and persists every
\* assignment of the list.  Stated for a call that runs alone: a second
\* open transaction counts as a change under way.
C27_UnchangedPreviewCommits ==
    [][\A p \in Reqs :
          (/\ StepOfCommit(p)
           /\ req[p].assignments = preview.assignments
           /\ NothingChanged
           /\ \A q \in Reqs \ {p} : ~InTransaction(req[q]))
          => \/ InTransaction(req'[p])
             \/ /\ response'.status = 200
                /\ families' = Appended(families, preview.assignments)]_vars

\* the number of children the slot of an assignment holds in a collection
ChildrenOfSlot(fams, a) ==
    Len(fams[a.familyId].grandParents[a.gpIndex].families[a.familyIndex].children)

\* C28: after any sequence of previews, commits and addChildrenToFamily
\* calls in which every preview uses the same maxChildrenPerFamily, no slot
\* that received a child through a commit holds more than
\* maxChildrenPerFamily children, also when the slot gained children
\* between the preview and its commit.
C28_CommitKeepsCapacity ==
    [][\A p \in Reqs :
          CommitOf(p) =>
              \A k \in DOMAIN req[p].assignments :
                  \A cfg \in OperatorConfigurations :
                      ChildrenOfSlot(families', req[p].assignments[k])
                          <= cfg.maxChildrenPerFamily]_vars

----------------------------------------------------------------------------
(* routes/transactions.ts: the status routes and the wallet *)

\* the largest number of transactions created
MaxTransactions == 2

\* the request bodies of POST /: 0 stands for a missing amount
Types == {"deposit", "withdrawal"}
Amounts == {0, 1}
Methods == {"cash", "telebirr"}

\* the reason and the transactionId of a request body, "" when absent
Reasons == {"", "r"}
TransactionIds == {"", "T1"}

\* the ids a request may name, stored or not
RequestedIds == 1..MaxTransactions

familyVars == <<students, families, preview>>

\* new Transaction({..., status: 'pending'})
NewTransaction(type, amount, method) ==
    [type |-> type, amount |-> amount, method |-> method, status |-> "pending",
     reason |-> "", transactionId |-> ""]

\* POST /
createTransaction(type, amount, method) ==
    /\ Len(transactions) < MaxTransactions
    /\ IF amount = 0
       THEN /\ response' = Response(400, "Missing required fields")
            /\ UNCHANGED transactions
       ELSE /\ transactions' = Append(transactions,
                                      NewTransaction(type, amount, method))
            /\ response' = Response(200, "Transaction created successfully")
    /\ UNCHANGED <<familyVars, req, wallets>>

\* PUT /approve/:id up to the status check
approveRead(p, id, reason) ==
    /\ Free(p)
    /\ IF id \notin DOMAIN transactions
       THEN /\ response' = Response(404, "Transaction not found")
            /\ UNCHANGED req
       ELSE IF transactions[id].status # "pending"
       THEN /\ response' = Response(400, "Transaction is not pending")
            /\ UNCHANGED req
       ELSE /\ req' = [req EXCEPT ![p] =
                          [pc |-> "approve", id |-> id, reason |-> reason]]
            /\ UNCHANGED response
    /\ UNCHANGED <<familyVars, wallets, transactions>>

\* PUT /approve/:id: transaction.save() of the modified paths
approveWrite(p) ==
    /\ req[p].pc = "approve"
    /\ transactions' = [transactions EXCEPT ![req[p].id] =
           [@ EXCEPT !.status = "approved",
                     !.reason = IF req[p].reason # "" THEN req[p].reason ELSE @]]
    /\ response' = Response(200, "Transaction approved successfully")
    /\ req' = [req EXCEPT ![p] = Idle]
    /\ UNCHANGED <<familyVars, wallets>>

\* PUT /reject/:id up to the status check
rejectRead(p, id, reason) ==
    /\ Free(p)
    /\ IF reason = ""
       THEN /\ response' = Response(400, "Reason is required for rejection")
            /\ UNCHANGED req
       ELSE IF id \notin DOMAIN transactions
       THEN /\ response' = Response(404, "Transaction not found")
            /\ UNCHANGED req
       ELSE IF transactions[id].status # "pending"
       THEN /\ response' = Response(400, "Transaction is not pending")
            /\ UNCHANGED req
       ELSE /\ req' = [req EXCEPT ![p] =
                          [pc |-> "reject", id |-> id, reason |-> reason]]
            /\ UNCHANGED response
    /\ UNCHANGED <<familyVars, wallets, transactions>>

\* PUT /reject/:id: transaction.save()
rejectWrite(p) ==
    /\ req[p].pc = "reject"
    /\ transactions' = [transactions EXCEPT ![req[p].id] =
           [@ EXCEPT !.status = "failed", !.reason = req[p].reason]]
    /\ response' = Response(200, "Transaction rejected successfully")
    /\ req' = [req EXCEPT ![p] = Idle]
    /\ UNCHANGED <<familyVars, wallets>>

\* PUT /complete/:id up to the checks; the handler keeps the document it
\* read
completeRead(p, id, transactionId) ==
    /\ Free(p)
    /\ IF id \notin DOMAIN transactions
       THEN /\ response' = Response(404, "Transaction not found")
            /\ UNCHANGED req
       ELSE IF transactions[id].status # "approved"
       THEN /\ response' = Response(400, "Transaction must be approved first")
            /\ UNCHANGED req
       ELSE IF /\ transactions[id].method # "cash"
               /\ transactions[id].type # "deposit"
               /\ transactionId = ""
       THEN /\ response' = Response(400, "Transaction ID is required")
            /\ UNCHANGED req
       ELSE /\ req' = [req EXCEPT ![p] =
                          [pc |-> "completeFindWallet", id |-> id,
                           transactionId |-> transactionId,
                           type |-> transactions[id].type,
                           amount |-> transactions[id].amount]]
            /\ UNCHANGED response
    /\ UNCHANGED <<familyVars, wallets, transactions>>

\* PUT /complete/:id: Wallet.findOne()
completeFindWallet(p) ==
    /\ req[p].pc = "completeFindWallet"
    /\ req' = [req EXCEPT ![p] =
                  [pc |-> "completeSaveWallet", id |-> req[p].id,
                   transactionId |-> req[p].transactionId,
                   type |-> req[p].type, amount |-> req[p].amount,
                   found |-> IF wallets = <<>> THEN <<>> ELSE <<wallets[1]>>]]
    /\ UNCHANGED <<familyVars, response, wallets, transactions>>

\* the wallet document the handler saves: a new one when none was found,
\* else the one it read with the amount applied
WalletToSave(r) ==
    IF r.found = <<>>
    THEN [wallet |-> IF r.type = "deposit" THEN r.amount ELSE 0 - r.amount,
          totalDeposit |-> IF r.type = "deposit" THEN r.amount ELSE 0,
          totalWithdrawal |-> IF r.type = "withdrawal" THEN r.amount ELSE 0]
    ELSE IF r.type = "deposit"
    THEN [r.found[1] EXCEPT !.wallet = @ + r.amount, !.totalDeposit = @ + r.amount]
    ELSE [r.found[1] EXCEPT !.wallet = @ - r.amount,
                            !.totalWithdrawal = @ + r.amount]

\* PUT /complete/:id: newWallet.save() or wallet.save().  The save of a
\* document that was read writes the paths the handler modified; a negative
\* wallet fails the validation (min 0) and the handler answers 500.
completeSaveWallet(p) ==
    /\ req[p].pc = "completeSaveWallet"
    /\ LET r == req[p]
           doc == WalletToSave(r)
       IN IF doc.wallet < 0
          THEN /\ response' = Response(500, "Wallet validation failed")
               /\ req' = [req EXCEPT ![p] = Idle]
               /\ UNCHANGED wallets
          ELSE /\ wallets' =
                     IF r.found = <<>> THEN Append(wallets, doc)
                     ELSE IF r.type = "deposit"
                     THEN [wallets EXCEPT ![1] =
                              [@ EXCEPT !.wallet = doc.wallet,
                                        !.totalDeposit = doc.totalDeposit]]
                     ELSE [wallets EXCEPT ![1] =
                              [@ EXCEPT !.wallet = doc.wallet,
                                        !.totalWithdrawal = doc.totalWithdrawal]]
               /\ req' = [req EXCEPT ![p] =
                             [pc |-> "completeSave", id |-> r.id,
                              transactionId |-> r.transactionId]]
               /\ UNCHANGED response
    /\ UNCHANGED <<familyVars, transactions>>

\* PUT /complete/:id: transaction.save()
completeSave(p) ==
    /\ req[p].pc = "completeSave"
    /\ transactions' = [transactions EXCEPT ![req[p].id] =
           [@ EXCEPT !.status = "completed",
                     !.transactionId = IF req[p].transactionId # ""
                                       THEN req[p].transactionId ELSE @]]
    /\ response' = Response(200, "Transaction completed successfully")
    /\ req' = [req EXCEPT ![p] = Idle]
    /\ UNCHANGED <<familyVars, wallets>>

\* PUT /confirm/:id up to the check
confirmRead(p, id) ==
    /\ Free(p)
    /\ IF id \notin DOMAIN transactions
       THEN /\ response' = Response(404, "Transaction not found")
            /\ UNCHANGED req
       ELSE IF \/ transactions[id].type # "withdrawal"
               \/ transactions[id].status # "completed"
       THEN /\ response' = Response(400, "Only completed withdrawals can be confirmed")
            /\ UNCHANGED req
       ELSE /\ req' = [req EXCEPT ![p] = [pc |-> "confirm", id |-> id]]
            /\ UNCHANGED response
    /\ UNCHANGED <<familyVars, wallets, transactions>>

\* PUT /confirm/:id: transaction.save()
confirmWrite(p) ==
    /\ req[p].pc = "confirm"
    /\ transactions' = [transactions EXCEPT ![req[p].id] =
           [@ EXCEPT !.status = "confirmed"]]
    /\ response' = Response(200, "Withdrawal confirmed successfully")
    /\ req' = [req EXCEPT ![p] = Idle]
    /\ UNCHANGED <<familyVars, wallets>>

\* the transaction routes, interleaved
InitWallet ==
    /\ students = SeedStudents
    /\ families = <<>>
    /\ preview = NoPreview
    /\ response = Response(0, "")
    /\ req = [p \in Reqs |-> Idle]
    /\ wallets = <<>>
    /\ transactions = <<>>

NextWallet ==
    \/ \E type \in Types, amount \in Amounts, method \in Methods :
          createTransaction(type, amount, method)
    \/ \E p \in Reqs, id \in RequestedIds : approveRead(p, id, "")
    \/ \E p \in Reqs : approveWrite(p)
    \/ \E p \in Reqs, id \in RequestedIds, reason \in Reasons :
          rejectRead(p, id, reason)
    \/ \E p \in Reqs : rejectWrite(p)
    \/ \E p \in Reqs, id \in RequestedIds, transactionId \in TransactionIds :
          completeRead(p, id, transactionId)
    \/ \E p \in Reqs : completeFindWallet(p)
    \/ \E p \in Reqs : completeSaveWallet(p)
    \/ \E p \in Reqs : completeSave(p)
    \/ \E p \in Reqs, id \in RequestedIds : confirmRead(p, id)
    \/ \E p \in Reqs : confirmWrite(p)

SpecWallet == InitWallet /\ [][NextWallet]_vars

\* the collections of approved transactions, before any was completed
ApprovedTransactions ==
    {[NewTransaction(type, amount, method) EXCEPT !.status = "approved"] :
        type \in Types, amount \in Amounts \ {0}, method \in Methods}

ApprovedCollections ==
    UNION {[1..n -> ApprovedTransactions] : n \in 1..MaxTransactions}

\* complete requests on approved transactions
InitComplete ==
    /\ students = SeedStudents
    /\ families = <<>>
    /\ preview = NoPreview
    /\ response = Response(0, "")
    /\ req = [p \in Reqs |-> Idle]
    /\ wallets = <<>>
    /\ transactions \in ApprovedCollections

NextComplete ==
    \/ \E p \in Reqs, id \in RequestedIds, transactionId \in TransactionIds :
          completeRead(p, id, transactionId)
    \/ \E p \in Reqs : completeFindWallet(p)
    \/ \E p \in Reqs : completeSaveWallet(p)
    \/ \E p \in Reqs : completeSave(p)

SpecComplete == InitComplete /\ [][NextComplete]_vars

\* the sum of the amounts of the transactions of a type that were applied
RECURSIVE AppliedFrom(_, _)
AppliedFrom(type, k) ==
    IF k > Len(transactions) THEN 0
    ELSE (IF /\ transactions[k].type = type
             /\ transactions[k].status \in {"completed", "confirmed"}
          THEN transactions[k].amount ELSE 0) + AppliedFrom(type, k + 1)

\* no request is in progress
Quiescent == \A p \in Reqs : req[p] = Idle

\* C29: the amount of a deposit or withdrawal transaction is applied to the
\* wallet exactly once per transaction, for any sequence and interleaving
\* of complete requests: when no request is in progress, totalDeposit and
\* totalWithdrawal are the sums of the amounts of the completed deposits
\* and withdrawals, the balance is their difference, and no transaction is
\* left approved with its amount in the wallet.
C29_AmountAppliedOnce ==
    Quiescent =>
        LET w == IF wallets = <<>>
                 THEN [wallet |-> 0, totalDeposit |-> 0, totalWithdrawal |-> 0]
                 ELSE wallets[1]
        IN /\ w.totalDeposit = AppliedFrom("deposit", 1)
           /\ w.totalWithdrawal = AppliedFrom("withdrawal", 1)
           /\ w.wallet = w.totalDeposit - w.totalWithdrawal

\* the status changes the routes are meant to make
StatusChanges ==
    {<<"pending", "approved">>, <<"pending", "failed">>,
     <<"approved", "completed">>, <<"completed", "confirmed">>}

\* C30: a transaction's status changes only along pending -> approved
\* (approve), pending -> failed (reject, reason required), approved ->
\* completed (complete) and completed -> confirmed (confirm, withdrawals
\* only); failed and confirmed are terminal, and a request answered with
\* 400 leaves the transactions and the wallet unchanged.
C30_StatusChanges ==
    [][/\ \A id \in DOMAIN transactions :
             transactions'[id].status # transactions[id].status =>
                /\ <<transactions[id].status, transactions'[id].status>>
                      \in StatusChanges
                /\ transactions'[id].status = "failed"
                      => transactions'[id].reason # ""
                /\ transactions'[id].status = "confirmed"
                      => transactions[id].type = "withdrawal"
       /\ (response' # response /\ response'.status = 400)
             => transactions' = transactions /\ wallets' = wallets]_vars

====
